---- MODULE Spec2Model ----
(***************************************************************************)
(* Commitment-challenge game engine: GameService (lifecycle, check-ins,    *)
(* settlement), GameStorage (the in-memory store) and the background       *)
(* worker that drives time-based transitions.                              *)
(*                                                                         *)
(* Time is counted in ticks of one hour.  Every handler is an operator     *)
(* that maps the stored game to the stored game after the call and the     *)
(* error code of the Result it returns, running the guard chain in source  *)
(* order.  A command is a step when its guards pass; a call that returns   *)
(* err(...) before any mutation changes nothing and is a stuttering step.  *)
(***************************************************************************)
EXTENDS Integers, Sequences, FiniteSets, TLC

\* ------------------------------------------------------------------------
\* Bounds of the exploration
\* ------------------------------------------------------------------------
MaxTime == 4
MaxCheckIns == 2
MaxTimers == 2
\* The number of submitCheckIn calls suspended at the provider at a time
MaxAwaiting == 1
\* No call is suspended any more once a player's count has reached this
MaxProgress == 2

\* ------------------------------------------------------------------------
\* Program constants
\* ------------------------------------------------------------------------
\* grace period of startGame: 60 * 60 * 1000 ms = one tick
OneHour == 1

\* value of an optional field that is not set
Undefined == -1

GameIds == {"g1"}
\* Player ids are interchangeable uuids: the i-th player to join is PlayerOrder[i]
PlayerOrder == <<"p1", "p2", "p3", "p4">>
PlayerIds == { PlayerOrder[i] : i \in 1..Len(PlayerOrder) }
GameMasterIds == {"gm", "mallory"}
\* a stake of three stake units, and a multiplier above maxMultiplier
Multipliers == {3, 4}
\* 0 is turned away by SubmitCheckInSchema, 3 is above every configuration
CheckpointNumbers == 0..3
CheckInIds == 1..MaxCheckIns
\* Player ids are interchangeable and the i-th player to join is
\* PlayerOrder[i]: the players of g and one id outside g stand for every
\* caller
Callers(g) == { PlayerOrder[i] : i \in 1..(Len(g.players) + 1) }
\* The checkpoint numbers that g can tell apart: 0, its checkpoints, and one
\* number above them
CheckpointInputs(g) == 0..(Len(g.checkpoints) + 1)
\* The decisions of LLMResponseSchema
Decisions == {"APPROVED", "NEEDS_REVIEW", "REJECTED", "INVALID_SUBMISSION"}

\* What a call of the provider can come back with: the media of the proof
\* cannot be converted, the request fails, the HTTP status is not a success,
\* the response has no content, the content holds no JSON object, the JSON
\* object cannot be parsed, or it is a JSON object whose decision is one of
\* the four, absent, or some other text, and whose confidence (in
\* hundredths) is absent, below the minimum of 0.1, or in range
ProviderResponses ==
  { [kind |-> k, decision |-> "ABSENT", confidence |-> Undefined] :
      k \in {"MEDIA_ERROR", "NETWORK_ERROR", "HTTP_ERROR", "NO_CONTENT",
             "NO_JSON", "BAD_JSON"} }
    \cup { [kind |-> "JSON", decision |-> d, confidence |-> c] :
             d \in Decisions \cup {"ABSENT", "OTHER"},
             c \in {Undefined, 5, 80} }

\* LLMResponseSchema.parse: an absent decision defaults to
\* INVALID_SUBMISSION and an absent confidence to 0.5; a decision outside
\* the enum or a confidence outside [0.1, 1.0] is a ZodError
LLMResponseSchema(parsed) ==
  IF parsed.decision \notin Decisions \cup {"ABSENT"} THEN "ZodError"
  ELSE IF /\ parsed.confidence # Undefined
          /\ (parsed.confidence < 10 \/ parsed.confidence > 100)
       THEN "ZodError"
  ELSE IF parsed.decision = "ABSENT" THEN "INVALID_SUBMISSION"
  ELSE parsed.decision

\* Variant: a request that fails counts as a rejection
LLMverifyCheckIn_FailureRejects(response) ==
  IF response.kind # "JSON" THEN "REJECTED"
  ELSE IF LLMResponseSchema(response) = "ZodError" THEN "PROVIDER_FAILURE"
  ELSE LLMResponseSchema(response)

\* LLM.verifyCheckIn: the decision of a response that passes the schema,
\* an LLMError (PROVIDER_FAILURE) for everything else
LLMverifyCheckIn(response) ==
  IF response.kind # "JSON" THEN "PROVIDER_FAILURE"
  ELSE IF LLMResponseSchema(response) = "ZodError" THEN "PROVIDER_FAILURE"
  ELSE LLMResponseSchema(response)

\* The outcomes of the AI step of a submission: what LLM.verifyCheckIn
\* makes of the response, or no call at all when no API key is configured
AIDecisions ==
  { LLMverifyCheckIn(response) : response \in ProviderResponses }
    \cup {"NO_API_KEY"}
\* verification.confidence of an answer of the provider, in hundredths
VerificationConfidence == 80
\* notes of VerifyCheckInSchema: a text of the game master, one text
\* standing for all of them
VerifierNotes == {"GM_NOTES"}

\* Configurations accepted by CreateGameSchema and createGame: a manually
\* verified game of two checkpoints with forced cash-out, an AI-verified
\* game of one checkpoint without, and a manually verified game of three
\* players whose only checkpoint expires when the game ends
Configs ==
  { [gameMasterId |-> "gm", stackSize |-> 3, maxMultiplier |-> 3,
     maxPlayers |-> 2, minPlayers |-> 2, startDate |-> 1, endDate |-> 4,
     checkpoints |-> <<2, 3>>, verificationMethod |-> "GAMEMASTER",
     aiVerification |-> FALSE, forceCashoutOnMiss |-> TRUE],
    [gameMasterId |-> "gm", stackSize |-> 3, maxMultiplier |-> 3,
     maxPlayers |-> 2, minPlayers |-> 2, startDate |-> 1, endDate |-> 3,
     checkpoints |-> <<2>>, verificationMethod |-> "AI",
     aiVerification |-> TRUE, forceCashoutOnMiss |-> FALSE],
    [gameMasterId |-> "gm", stackSize |-> 3, maxMultiplier |-> 3,
     maxPlayers |-> 3, minPlayers |-> 3, startDate |-> 1, endDate |-> 2,
     checkpoints |-> <<2>>, verificationMethod |-> "GAMEMASTER",
     aiVerification |-> FALSE, forceCashoutOnMiss |-> FALSE] }

\* The clock reading taken when CreateGameSchema is defined (module load)
LoadTime == 0

\* Inputs a caller may hand to createGame: the first configuration with its
\* end date, checkpoints, verification method and AI settings varied
CreateGameInputs ==
  { [gameMasterId |-> "gm", stackSize |-> 3, maxMultiplier |-> 3,
     maxPlayers |-> 2, minPlayers |-> 2, startDate |-> 1, endDate |-> e,
     checkpoints |-> cps, verificationMethod |-> m,
     aiVerification |-> a, forceCashoutOnMiss |-> TRUE] :
      e \in {0, 1, 2, 4},
      cps \in {<<>>, <<0>>, <<2>>, <<2, 2>>, <<2, 3>>, <<3, 2>>, <<5>>},
      m \in {"GAMEMASTER", "AI"}, a \in BOOLEAN }

VARIABLES
  games,       \* GameStorage.games : gameId -> Game
  now,         \* the wall clock (new Date())
  endTimers,   \* one-shot timers armed by handleLastCheckpointExpiry
  awaiting,    \* submitCheckIn calls suspended at await llm.verifyCheckIn
  worker       \* BackgroundWorkerService: isRunning, intervalId, and the
               \* number of intervals set and not cleared

vars == <<games, now, endTimers, awaiting, worker>>

\* ------------------------------------------------------------------------
\* Sequence helpers
\* ------------------------------------------------------------------------
RECURSIVE SumSeq(_)
SumSeq(s) == IF s = <<>> THEN 0 ELSE Head(s) + SumSeq(Tail(s))

Range(s) == { s[i] : i \in 1..Len(s) }

\* Array.prototype.find / findIndex over the outcomes of the test on each
\* element: the first match, 0 when there is none
FindIndex(matches) ==
  IF \E i \in 1..Len(matches) : matches[i]
  THEN CHOOSE i \in 1..Len(matches) :
         matches[i] /\ \A j \in 1..(i - 1) : ~matches[j]
  ELSE 0

\* ------------------------------------------------------------------------
\* GameStorage: mutation primitives, as functions of the stored game
\* ------------------------------------------------------------------------
addToPoolUncheckedMut(g, amount) ==
  [g EXCEPT !.totalPool = @ + amount]

updateGameStatusUncheckedMut(g, status) ==
  [g EXCEPT !.state = status]

\* Variant: the cash-out is booked but never taken out of the pool
cashoutPlayerUncheckedMut_NoDebit(g, cashoutAmount, forfeitedAmount) ==
  [g EXCEPT !.totalCashouts = @ + cashoutAmount,
            !.bonusPool = @ + forfeitedAmount]

cashoutPlayerUncheckedMut(g, cashoutAmount, forfeitedAmount) ==
  [g EXCEPT !.totalCashouts = @ + cashoutAmount,
            !.bonusPool = @ + forfeitedAmount,
            !.totalPool = @ - cashoutAmount]

addPlayerToGameUncheckedMut(g, player) ==
  [g EXCEPT !.players = Append(@, player)]

PlayerIndex(g, playerId) ==
  FindIndex([i \in 1..Len(g.players) |-> g.players[i].id = playerId])

getPlayerUncheckedCopy(g, playerId) ==
  g.players[PlayerIndex(g, playerId)]

increasePlayerProgressUncheckedMut(g, playerId) ==
  [g EXCEPT !.players[PlayerIndex(g, playerId)].checkpointsCompleted = @ + 1]

foldPlayerUncheckedMut(g, playerId) ==
  LET i == PlayerIndex(g, playerId) IN
  [g EXCEPT !.players[i].foldedAtCheckpoint =
                g.players[i].checkpointsCompleted]

addPlayerBonusUncheckedMut(g, playerId, bonus) ==
  [g EXCEPT !.players[PlayerIndex(g, playerId)].bonusWon = bonus]

addCheckInUncheckedMut(g, checkIn) ==
  [g EXCEPT !.checkIns = Append(@, checkIn)]

\* Variant: the check-in of a failed AI step is left in the list
deleteCheckInUncheckedMut_Kept(g, checkInId) == g

deleteCheckInUncheckedMut(g, checkInId) ==
  LET Keep(c) == c.id # checkInId IN
  [g EXCEPT !.checkIns = SelectSeq(@, Keep)]

CheckInIndex(g, checkInId) ==
  FindIndex([i \in 1..Len(g.checkIns) |-> g.checkIns[i].id = checkInId])

\* An aiConfidence of Undefined leaves the confidence of the check-in as
\* it was
approveCheckInUncheckedMut(g, checkInId, verifiedBy, aiConfidence, notes) ==
  LET i == CheckInIndex(g, checkInId) IN
  [g EXCEPT !.checkIns[i].verifiedBy = verifiedBy,
            !.checkIns[i].aiConfidence =
              IF aiConfidence # Undefined THEN aiConfidence ELSE @,
            !.checkIns[i].notes = notes,
            !.checkIns[i].status = "APPROVED"]

rejectCheckInUncheckedMut(g, checkInId, verifiedBy, aiConfidence, notes) ==
  LET i == CheckInIndex(g, checkInId) IN
  [g EXCEPT !.checkIns[i].status = "REJECTED",
            !.checkIns[i].verifiedBy = verifiedBy,
            !.checkIns[i].aiConfidence = aiConfidence,
            !.checkIns[i].notes = notes]

needsReviewCheckInUncheckedMut(g, checkInId, verifiedBy, aiConfidence, notes) ==
  LET i == CheckInIndex(g, checkInId) IN
  [g EXCEPT !.checkIns[i].status = "PENDING",
            !.checkIns[i].verifiedBy = verifiedBy,
            !.checkIns[i].aiConfidence = aiConfidence,
            !.checkIns[i].notes = notes]

getPlayerCheckInsCopy(g, playerId) ==
  LET Mine(c) == c.playerId = playerId IN SelectSeq(g.checkIns, Mine)

\* Variant: a new transaction is put at the head of the list
addTransactionUncheckedMut_AtHead(g, transaction) ==
  [g EXCEPT !.transactions = <<transaction>> \o @]

addTransactionUncheckedMut(g, transaction) ==
  [g EXCEPT !.transactions = Append(@, transaction)]

\* ------------------------------------------------------------------------
\* GameService: each handler maps the stored game to the stored game after
\* the call and the error code of the returned Result ("OK" for ok(...))
\* ------------------------------------------------------------------------
Ret(g, e) == [g |-> g, err |-> e]

NewGame(cfg) ==
  [gameMasterId |-> cfg.gameMasterId, stackSize |-> cfg.stackSize,
   maxMultiplier |-> cfg.maxMultiplier, maxPlayers |-> cfg.maxPlayers,
   minPlayers |-> cfg.minPlayers, startDate |-> cfg.startDate,
   endDate |-> cfg.endDate, checkpoints |-> cfg.checkpoints,
   verificationMethod |-> cfg.verificationMethod,
   aiVerification |-> cfg.aiVerification,
   forceCashoutOnMiss |-> cfg.forceCashoutOnMiss,
   state |-> "WAITING_FOR_PLAYERS", players |-> <<>>, checkIns |-> <<>>,
   transactions |-> <<>>, totalPool |-> 0, totalCashouts |-> 0,
   bonusPool |-> 0]

\* The third refinement of CreateGameSchema: each expiry lies between the
\* start and the end date and is not before the previous one
CheckpointsInOrder(input) ==
  \A i \in 1..Len(input.checkpoints) :
    /\ input.checkpoints[i] >= input.startDate
    /\ input.checkpoints[i] <= input.endDate
    /\ i > 1 => input.checkpoints[i] >= input.checkpoints[i - 1]

\* CreateGameSchema.safeParse(input).success
CreateGameSchema(input) ==
  /\ input.maxMultiplier >= 1 /\ input.maxMultiplier <= 100
  /\ input.maxPlayers >= 2 /\ input.maxPlayers <= 1000
  /\ input.minPlayers >= 2
  /\ input.startDate >= LoadTime
  /\ input.endDate >= LoadTime
  /\ Len(input.checkpoints) >= 1
  /\ ~(input.verificationMethod = "AI" /\ ~input.aiVerification)
  /\ ~(input.endDate <= input.startDate
        \/ input.endDate - input.startDate < OneHour)
  /\ CheckpointsInOrder(input)

\* createGame on a store: the store afterwards and the error
createGame(store, gameId, input) ==
  IF ~CreateGameSchema(input)
    THEN [store |-> store, err |-> "VALIDATION_ERROR"]
  ELSE IF input.endDate <= input.startDate
    THEN [store |-> store, err |-> "VALIDATION_ERROR"]
  ELSE [store |-> [id \in DOMAIN store \cup {gameId} |->
                     IF id = gameId THEN NewGame(input) ELSE store[id]],
        err |-> "OK"]

Stake(g, p) == g.stackSize * p.multiplier

\* Variant: a full game still takes players
joinGame_NoFullCheck(g, playerId, multiplier) ==
  IF g.state # "WAITING_FOR_PLAYERS" THEN Ret(g, "GAME_ALREADY_STARTED")
  ELSE IF \E i \in 1..Len(g.players) : g.players[i].id = playerId
       THEN Ret(g, "PLAYER_ALREADY_JOINED")
  ELSE IF multiplier > g.maxMultiplier THEN Ret(g, "INVALID_MULTIPLIER")
  ELSE
    LET player == [id |-> playerId, multiplier |-> multiplier,
                   checkpointsCompleted |-> 0,
                   foldedAtCheckpoint |-> Undefined, bonusWon |-> Undefined]
        stake == g.stackSize * multiplier
        transaction == [playerId |-> playerId, type |-> "INITIAL_STAKE",
                        amount |-> stake]
        g1 == addPlayerToGameUncheckedMut(g, player)
        g2 == addTransactionUncheckedMut(g1, transaction)
        g3 == addToPoolUncheckedMut(g2, stake)
    IN Ret(g3, "OK")

joinGame(g, playerId, multiplier) ==
  IF g.state # "WAITING_FOR_PLAYERS" THEN Ret(g, "GAME_ALREADY_STARTED")
  ELSE IF Len(g.players) >= g.maxPlayers THEN Ret(g, "TOO_MANY_PLAYERS")
  ELSE IF \E i \in 1..Len(g.players) : g.players[i].id = playerId
       THEN Ret(g, "PLAYER_ALREADY_JOINED")
  ELSE IF multiplier > g.maxMultiplier THEN Ret(g, "INVALID_MULTIPLIER")
  ELSE
    LET player == [id |-> playerId, multiplier |-> multiplier,
                   checkpointsCompleted |-> 0,
                   foldedAtCheckpoint |-> Undefined, bonusWon |-> Undefined]
        stake == g.stackSize * multiplier
        transaction == [playerId |-> playerId, type |-> "INITIAL_STAKE",
                        amount |-> stake]
        g1 == addPlayerToGameUncheckedMut(g, player)
        g2 == addTransactionUncheckedMut(g1, transaction)
        g3 == addToPoolUncheckedMut(g2, stake)
    IN Ret(g3, "OK")

\* Variant: a game can be started at any time after startDate
startGame_NoGraceLimit(g, gameMasterId, t) ==
  IF g.gameMasterId # gameMasterId THEN Ret(g, "UNAUTHORIZED_GAME_MASTER")
  ELSE IF g.state # "WAITING_FOR_PLAYERS" THEN Ret(g, "GAME_ALREADY_STARTED")
  ELSE IF g.startDate > t THEN Ret(g, "INVALID_START_TIME")
  ELSE IF Len(g.players) < g.minPlayers THEN Ret(g, "NOT_ENOUGH_PLAYERS")
  ELSE Ret(updateGameStatusUncheckedMut(g, "IN_PROGRESS"), "OK")

\* Variant: the state is never checked
startGame_NoStateCheck(g, gameMasterId, t) ==
  IF g.gameMasterId # gameMasterId THEN Ret(g, "UNAUTHORIZED_GAME_MASTER")
  ELSE IF g.startDate > t \/ t > g.startDate + OneHour
       THEN Ret(g, "INVALID_START_TIME")
  ELSE IF Len(g.players) < g.minPlayers THEN Ret(g, "NOT_ENOUGH_PLAYERS")
  ELSE Ret(updateGameStatusUncheckedMut(g, "IN_PROGRESS"), "OK")

\* Variant: the state is checked before the caller
startGame_StateFirst(g, gameMasterId, t) ==
  IF g.state # "WAITING_FOR_PLAYERS" THEN Ret(g, "GAME_ALREADY_STARTED")
  ELSE IF g.gameMasterId # gameMasterId
       THEN Ret(g, "UNAUTHORIZED_GAME_MASTER")
  ELSE IF g.startDate > t \/ t > g.startDate + OneHour
       THEN Ret(g, "INVALID_START_TIME")
  ELSE IF Len(g.players) < g.minPlayers THEN Ret(g, "NOT_ENOUGH_PLAYERS")
  ELSE Ret(updateGameStatusUncheckedMut(g, "IN_PROGRESS"), "OK")

startGame(g, gameMasterId, t) ==
  IF g.gameMasterId # gameMasterId THEN Ret(g, "UNAUTHORIZED_GAME_MASTER")
  ELSE IF g.state # "WAITING_FOR_PLAYERS" THEN Ret(g, "GAME_ALREADY_STARTED")
  ELSE IF g.startDate > t \/ t > g.startDate + OneHour
       THEN Ret(g, "INVALID_START_TIME")
  ELSE IF Len(g.players) < g.minPlayers THEN Ret(g, "NOT_ENOUGH_PLAYERS")
  ELSE Ret(updateGameStatusUncheckedMut(g, "IN_PROGRESS"), "OK")

\* Variant: a folded player is not turned away
cashOutGuard_NoFoldCheck(g, playerId) ==
  IF g.state # "IN_PROGRESS" THEN "GAME_NOT_STARTED"
  ELSE IF PlayerIndex(g, playerId) = 0 THEN "PLAYER_NOT_IN_GAME"
  ELSE "OK"

\* The guard chain of cashOut
cashOutGuard(g, playerId) ==
  IF g.state # "IN_PROGRESS" THEN "GAME_NOT_STARTED"
  ELSE IF PlayerIndex(g, playerId) = 0 THEN "PLAYER_NOT_IN_GAME"
  ELSE IF getPlayerUncheckedCopy(g, playerId).foldedAtCheckpoint # Undefined
       THEN "PLAYER_ALREADY_FOLDED"
  ELSE "OK"

\* Variant: the stake is divided first, floor(stake / N) * completed
cashOut_FloorPerCheckpoint(g, playerId) ==
  IF cashOutGuard(g, playerId) # "OK" THEN Ret(g, cashOutGuard(g, playerId))
  ELSE
    LET player == getPlayerUncheckedCopy(g, playerId)
        stake == g.stackSize * player.multiplier
        cashoutAmount ==
          (stake \div Len(g.checkpoints)) * player.checkpointsCompleted
        forfeitedAmount == stake - cashoutAmount
        transaction == [playerId |-> playerId, type |-> "CASHOUT",
                        amount |-> cashoutAmount]
        g1 == foldPlayerUncheckedMut(g, playerId)
        g2 == addTransactionUncheckedMut(g1, transaction)
        g3 == cashoutPlayerUncheckedMut(g2, cashoutAmount, forfeitedAmount)
    IN Ret(g3, "OK")

cashOut(g, playerId) ==
  IF cashOutGuard(g, playerId) # "OK" THEN Ret(g, cashOutGuard(g, playerId))
  ELSE
    LET player == getPlayerUncheckedCopy(g, playerId)
        stake == g.stackSize * player.multiplier
        cashoutAmount ==
          (stake * player.checkpointsCompleted) \div Len(g.checkpoints)
        forfeitedAmount == stake - cashoutAmount
        transaction == [playerId |-> playerId, type |-> "CASHOUT",
                        amount |-> cashoutAmount]
        g1 == foldPlayerUncheckedMut(g, playerId)
        g2 == addTransactionUncheckedMut(g1, transaction)
        g3 == cashoutPlayerUncheckedMut(g2, cashoutAmount, forfeitedAmount)
    IN Ret(g3, "OK")

\* Variant: an approval by the provider does not advance the player
verifyCheckInWithAI_NoProgress(g, checkInId, ai) ==
  IF g.verificationMethod # "AI" \/ ~g.aiVerification
    THEN Ret(g, "AI_NOT_ENABLED")
  ELSE IF CheckInIndex(g, checkInId) = 0 THEN Ret(g, "CHECK_IN_NOT_FOUND")
  ELSE IF g.checkIns[CheckInIndex(g, checkInId)].status # "PENDING"
       THEN Ret(g, "CHECK_IN_NOT_PENDING")
  ELSE IF ai = "NO_API_KEY" THEN Ret(g, "LLM_ERROR")
  ELSE IF ai = "PROVIDER_FAILURE"
       THEN Ret(needsReviewCheckInUncheckedMut(g, checkInId, "AI", 0,
                                               "AI_VERIFICATION_FAILED"),
                "OK")
  ELSE IF ai = "APPROVED"
       THEN Ret(approveCheckInUncheckedMut(g, checkInId, "AI",
                                           VerificationConfidence,
                                           "AI_REASONING"), "OK")
  ELSE IF ai = "REJECTED"
       THEN Ret(rejectCheckInUncheckedMut(g, checkInId, "AI",
                                          VerificationConfidence,
                                          "AI_REASONING"), "OK")
  ELSE IF ai = "NEEDS_REVIEW"
       THEN Ret(needsReviewCheckInUncheckedMut(g, checkInId, "AI",
                                               VerificationConfidence,
                                               "AI_REASONING"), "OK")
  ELSE Ret(g, "INVALID_SUBMISSION")

\* The provider's answer (or the failure to get one) is an input of the
\* call; an answer carries verification.confidence and
\* verification.reasoning, a failure is recorded with confidence 0.0 and the
\* note "AI verification failed: ... Please review manually."
verifyCheckInWithAI(g, checkInId, ai) ==
  IF g.verificationMethod # "AI" \/ ~g.aiVerification
    THEN Ret(g, "AI_NOT_ENABLED")
  ELSE IF CheckInIndex(g, checkInId) = 0 THEN Ret(g, "CHECK_IN_NOT_FOUND")
  ELSE IF g.checkIns[CheckInIndex(g, checkInId)].status # "PENDING"
       THEN Ret(g, "CHECK_IN_NOT_PENDING")
  ELSE IF ai = "NO_API_KEY" THEN Ret(g, "LLM_ERROR")
  ELSE IF ai = "PROVIDER_FAILURE"
       THEN Ret(needsReviewCheckInUncheckedMut(g, checkInId, "AI", 0,
                                               "AI_VERIFICATION_FAILED"),
                "OK")
  ELSE IF ai = "APPROVED"
       THEN Ret(increasePlayerProgressUncheckedMut(
                  approveCheckInUncheckedMut(g, checkInId, "AI",
                                             VerificationConfidence,
                                             "AI_REASONING"),
                  g.checkIns[CheckInIndex(g, checkInId)].playerId), "OK")
  ELSE IF ai = "REJECTED"
       THEN Ret(rejectCheckInUncheckedMut(g, checkInId, "AI",
                                          VerificationConfidence,
                                          "AI_REASONING"), "OK")
  ELSE IF ai = "NEEDS_REVIEW"
       THEN Ret(needsReviewCheckInUncheckedMut(g, checkInId, "AI",
                                               VerificationConfidence,
                                               "AI_REASONING"), "OK")
  ELSE Ret(g, "INVALID_SUBMISSION")

\* uuidv4 returns an id that no check-in carries; ids are interchangeable,
\* so the least such id stands for it
uuidv4(g) ==
  CHOOSE n \in 1..(Len(g.checkIns) + 1) :
    /\ \A i \in 1..Len(g.checkIns) : g.checkIns[i].id # n
    /\ \A m \in 1..(n - 1) : \E i \in 1..Len(g.checkIns) : g.checkIns[i].id = m

\* Variant: an APPROVED check-in does not block a new submission
submitCheckInGuard_NoCompletedGate(g, playerId, checkpointNumber, t) ==
  IF checkpointNumber < 1 THEN "VALIDATION_ERROR"
  ELSE IF g.state # "IN_PROGRESS" THEN "GAME_NOT_STARTED"
  ELSE IF PlayerIndex(g, playerId) = 0 THEN "PLAYER_NOT_IN_GAME"
  ELSE IF getPlayerUncheckedCopy(g, playerId).foldedAtCheckpoint # Undefined
       THEN "PLAYER_ALREADY_FOLDED"
  ELSE IF checkpointNumber > Len(g.checkpoints) THEN "INVALID_CHECKPOINT"
  ELSE
    LET playersCheckIns == getPlayerCheckInsCopy(g, playerId) IN
    IF \E i \in 1..Len(playersCheckIns) :
         /\ playersCheckIns[i].checkpointNumber = checkpointNumber
         /\ playersCheckIns[i].status = "PENDING"
    THEN "CHECKPOINT_ALREADY_PENDING"
    ELSE IF t > g.checkpoints[checkpointNumber] THEN "CHECKPOINT_EXPIRED"
    ELSE "OK"

\* Variant: a PENDING check-in does not block a new submission
submitCheckInGuard_NoPendingGate(g, playerId, checkpointNumber, t) ==
  IF checkpointNumber < 1 THEN "VALIDATION_ERROR"
  ELSE IF g.state # "IN_PROGRESS" THEN "GAME_NOT_STARTED"
  ELSE IF PlayerIndex(g, playerId) = 0 THEN "PLAYER_NOT_IN_GAME"
  ELSE IF getPlayerUncheckedCopy(g, playerId).foldedAtCheckpoint # Undefined
       THEN "PLAYER_ALREADY_FOLDED"
  ELSE IF checkpointNumber > Len(g.checkpoints) THEN "INVALID_CHECKPOINT"
  ELSE
    LET playersCheckIns == getPlayerCheckInsCopy(g, playerId) IN
    IF \E i \in 1..Len(playersCheckIns) :
              /\ playersCheckIns[i].checkpointNumber = checkpointNumber
              /\ playersCheckIns[i].status = "APPROVED"
    THEN "CHECKPOINT_ALREADY_COMPLETED"
    ELSE IF t > g.checkpoints[checkpointNumber] THEN "CHECKPOINT_EXPIRED"
    ELSE "OK"

\* Variant: a checkpoint counts as expired from its expiry date on
submitCheckInGuard_ExpiredAtExpiry(g, playerId, checkpointNumber, t) ==
  IF checkpointNumber < 1 THEN "VALIDATION_ERROR"
  ELSE IF g.state # "IN_PROGRESS" THEN "GAME_NOT_STARTED"
  ELSE IF PlayerIndex(g, playerId) = 0 THEN "PLAYER_NOT_IN_GAME"
  ELSE IF getPlayerUncheckedCopy(g, playerId).foldedAtCheckpoint # Undefined
       THEN "PLAYER_ALREADY_FOLDED"
  ELSE IF checkpointNumber > Len(g.checkpoints) THEN "INVALID_CHECKPOINT"
  ELSE
    LET playersCheckIns == getPlayerCheckInsCopy(g, playerId) IN
    IF \E i \in 1..Len(playersCheckIns) :
         /\ playersCheckIns[i].checkpointNumber = checkpointNumber
         /\ playersCheckIns[i].status = "PENDING"
    THEN "CHECKPOINT_ALREADY_PENDING"
    ELSE IF \E i \in 1..Len(playersCheckIns) :
              /\ playersCheckIns[i].checkpointNumber = checkpointNumber
              /\ playersCheckIns[i].status = "APPROVED"
    THEN "CHECKPOINT_ALREADY_COMPLETED"
    ELSE IF t >= g.checkpoints[checkpointNumber] THEN "CHECKPOINT_EXPIRED"
    ELSE "OK"

\* The guard chain of submitCheckIn, up to the creation of the check-in
submitCheckInGuard(g, playerId, checkpointNumber, t) ==
  IF checkpointNumber < 1 THEN "VALIDATION_ERROR"
  ELSE IF g.state # "IN_PROGRESS" THEN "GAME_NOT_STARTED"
  ELSE IF PlayerIndex(g, playerId) = 0 THEN "PLAYER_NOT_IN_GAME"
  ELSE IF getPlayerUncheckedCopy(g, playerId).foldedAtCheckpoint # Undefined
       THEN "PLAYER_ALREADY_FOLDED"
  ELSE IF checkpointNumber > Len(g.checkpoints) THEN "INVALID_CHECKPOINT"
  ELSE
    LET playersCheckIns == getPlayerCheckInsCopy(g, playerId) IN
    IF \E i \in 1..Len(playersCheckIns) :
         /\ playersCheckIns[i].checkpointNumber = checkpointNumber
         /\ playersCheckIns[i].status = "PENDING"
    THEN "CHECKPOINT_ALREADY_PENDING"
    ELSE IF \E i \in 1..Len(playersCheckIns) :
              /\ playersCheckIns[i].checkpointNumber = checkpointNumber
              /\ playersCheckIns[i].status = "APPROVED"
    THEN "CHECKPOINT_ALREADY_COMPLETED"
    ELSE IF t > g.checkpoints[checkpointNumber] THEN "CHECKPOINT_EXPIRED"
    ELSE "OK"

submitCheckIn(g, playerId, checkpointNumber, t, ai) ==
  LET e == submitCheckInGuard(g, playerId, checkpointNumber, t) IN
  IF e # "OK" THEN Ret(g, e)
  ELSE
    LET uuid == uuidv4(g)
        checkIn == [id |-> uuid, playerId |-> playerId,
                    checkpointNumber |-> checkpointNumber,
                    status |-> "PENDING", verifiedBy |-> "NONE",
                    aiConfidence |-> Undefined, notes |-> "NONE"]
        g1 == addCheckInUncheckedMut(g, checkIn)
    IN IF g.verificationMethod = "AI"
       THEN LET result == verifyCheckInWithAI(g1, uuid, ai) IN
            IF result.err # "OK"
            THEN Ret(deleteCheckInUncheckedMut(result.g, uuid), result.err)
            ELSE Ret(result.g, "OK")
       ELSE Ret(g1, "OK")

\* Variant: the status of the check-in is not looked at
verifyCheckInGuard_NoTerminalCheck(g, checkInId, gameMasterId) ==
  IF CheckInIndex(g, checkInId) = 0 THEN "CHECK_IN_NOT_FOUND"
  ELSE
    LET checkIn == g.checkIns[CheckInIndex(g, checkInId)] IN
    IF g.gameMasterId # gameMasterId THEN "UNAUTHORIZED_GAME_MASTER"
    ELSE IF g.state = "ENDED" THEN "GAME_ALREADY_ENDED"
    ELSE IF g.state = "WAITING_FOR_PLAYERS" THEN "GAME_NOT_STARTED"
    ELSE IF PlayerIndex(g, checkIn.playerId) = 0 THEN "PLAYER_NOT_IN_GAME"
    ELSE IF getPlayerUncheckedCopy(g, checkIn.playerId).foldedAtCheckpoint
              # Undefined
         THEN "PLAYER_ALREADY_FOLDED"
    ELSE "OK"

\* The guard chain of verifyCheckIn
verifyCheckInGuard(g, checkInId, gameMasterId) ==
  IF CheckInIndex(g, checkInId) = 0 THEN "CHECK_IN_NOT_FOUND"
  ELSE
    LET checkIn == g.checkIns[CheckInIndex(g, checkInId)] IN
    IF g.gameMasterId # gameMasterId THEN "UNAUTHORIZED_GAME_MASTER"
    ELSE IF g.state = "ENDED" THEN "GAME_ALREADY_ENDED"
    ELSE IF g.state = "WAITING_FOR_PLAYERS" THEN "GAME_NOT_STARTED"
    ELSE IF checkIn.status = "APPROVED" THEN "CHECK_IN_ALREADY_APPROVED"
    ELSE IF checkIn.status = "REJECTED" THEN "CHECK_IN_REJECTED"
    ELSE IF PlayerIndex(g, checkIn.playerId) = 0 THEN "PLAYER_NOT_IN_GAME"
    ELSE IF getPlayerUncheckedCopy(g, checkIn.playerId).foldedAtCheckpoint
              # Undefined
         THEN "PLAYER_ALREADY_FOLDED"
    ELSE "OK"

verifyCheckIn(g, checkInId, gameMasterId, status, verifiedBy, notes) ==
  LET e == verifyCheckInGuard(g, checkInId, gameMasterId) IN
  IF e # "OK" THEN Ret(g, e)
  ELSE IF status = "APPROVED"
       THEN Ret(increasePlayerProgressUncheckedMut(
                  approveCheckInUncheckedMut(g, checkInId, verifiedBy,
                                             Undefined, notes),
                  g.checkIns[CheckInIndex(g, checkInId)].playerId), "OK")
  ELSE Ret(rejectCheckInUncheckedMut(g, checkInId, verifiedBy, Undefined,
                                     notes), "OK")

\* Variant: the players still active are not cashed out
CashOutEach_Skipped(g, players) == g

\* endGame's loop "for (const player of nonCashedOutPlayers) this.cashOut(...)";
\* g1 is the store after the cash-out of the first player
RECURSIVE CashOutEach(_, _)
CashOutEach(g, players) ==
  IF players = <<>> THEN g
  ELSE CHOOSE result \in { CashOutEach(g1, Tail(players)) :
                             g1 \in {cashOut(g, Head(players).id).g} } : TRUE

\* Variant: every winner is paid the whole bonus pool
RECURSIVE PayEach_WholePool(_, _, _, _)
PayEach_WholePool(g, winners, bonusPool, totalWinnerStakes) ==
  IF winners = <<>> THEN g
  ELSE
    LET winner == Head(winners)
        winnerStake == g.stackSize * winner.multiplier
        payoutTransaction == [playerId |-> winner.id, type |-> "PAYOUT",
                              amount |-> winnerStake + bonusPool]
        g1 == addPlayerBonusUncheckedMut(g, winner.id, bonusPool)
        g2 == addTransactionUncheckedMut(g1, payoutTransaction)
    IN PayEach_WholePool(g2, Tail(winners), bonusPool, totalWinnerStakes)

\* endGame's loop "for (const winner of winners)": bonusWon and PAYOUT
RECURSIVE PayEach(_, _, _, _)
PayEach(g, winners, bonusPool, totalWinnerStakes) ==
  IF winners = <<>> THEN g
  ELSE
    LET winner == Head(winners)
        winnerStake == g.stackSize * winner.multiplier
        bonusShare == (winnerStake * bonusPool) \div totalWinnerStakes
        payoutTransaction == [playerId |-> winner.id, type |-> "PAYOUT",
                              amount |-> winnerStake + bonusShare]
        g1 == addPlayerBonusUncheckedMut(g, winner.id, bonusShare)
    IN CHOOSE result \in
         { PayEach(g2, Tail(winners), bonusPool, totalWinnerStakes) :
             g2 \in {addTransactionUncheckedMut(g1, payoutTransaction)} } :
         TRUE

\* Variant: a game that has ended can be ended again
endGameGuard_NoEndedCheck(game, gameMasterId) ==
  IF game.gameMasterId # gameMasterId THEN "UNAUTHORIZED_GAME_MASTER"
  ELSE IF game.state = "WAITING_FOR_PLAYERS" THEN "GAME_NOT_STARTED"
  ELSE "OK"

\* The guard chain of endGame
endGameGuard(game, gameMasterId) ==
  IF game.gameMasterId # gameMasterId THEN "UNAUTHORIZED_GAME_MASTER"
  ELSE IF game.state = "ENDED" THEN "GAME_ALREADY_ENDED"
  ELSE IF game.state = "WAITING_FOR_PLAYERS" THEN "GAME_NOT_STARTED"
  ELSE "OK"

\* game is the copy read at the start of the call; the mutations go to the store
endGame(game, gameMasterId) ==
  IF endGameGuard(game, gameMasterId) # "OK"
  THEN Ret(game, endGameGuard(game, gameMasterId))
  ELSE
    LET Incomplete(p) == /\ p.foldedAtCheckpoint = Undefined
                         /\ p.checkpointsCompleted # Len(game.checkpoints)
        Winner(p) == /\ p.foldedAtCheckpoint = Undefined
                     /\ p.checkpointsCompleted = Len(game.checkpoints)
        nonCashedOutPlayers == SelectSeq(game.players, Incomplete)
        g1 == CashOutEach(game, nonCashedOutPlayers)
        winners == SelectSeq(game.players, Winner)
        totalWinnerStakes ==
          SumSeq([i \in 1..Len(winners) |->
                    game.stackSize * winners[i].multiplier])
        g2 == IF Len(winners) > 0 /\ game.bonusPool > 0
              THEN PayEach(g1, winners, game.bonusPool, totalWinnerStakes)
              ELSE g1
    IN Ret(updateGameStatusUncheckedMut(g2, "ENDED"), "OK")

\* ------------------------------------------------------------------------
\* BackgroundWorkerService.  game is the copy handed out by
\* getActiveGamesCopy at the start of the pass, g the stored game.
\* ------------------------------------------------------------------------
\* Variant: a player who missed the checkpoint is cashed out whatever
\* forceCashoutOnMiss says
RECURSIVE processExpiredCheckpointForPlayers_AlwaysCashOut(_, _, _, _)
processExpiredCheckpointForPlayers_AlwaysCashOut(game, g, players, checkpointNumber) ==
  IF players = <<>> THEN g
  ELSE
    LET player == Head(players)
        playerCheckIns == getPlayerCheckInsCopy(g, player.id)
        Done(c) == /\ c.checkpointNumber = checkpointNumber
                   /\ c.status \in {"APPROVED", "PENDING"}
        i == FindIndex([j \in 1..Len(playerCheckIns) |->
                          Done(playerCheckIns[j])])
        g1 == IF player.foldedAtCheckpoint # Undefined THEN g
              ELSE IF i # 0
                   THEN IF playerCheckIns[i].status = "PENDING"
                        THEN verifyCheckIn(g, playerCheckIns[i].id,
                                           game.gameMasterId, "APPROVED",
                                           "TIMEOUT_APPROVAL",
                                           "AUTOMATED_APPROVAL").g
                        ELSE g
              ELSE cashOut(g, player.id).g
    IN processExpiredCheckpointForPlayers_AlwaysCashOut(game, g1,
                                                        Tail(players),
                                                        checkpointNumber)

\* Variant: a PENDING check-in of an expired checkpoint is left as it is
RECURSIVE processExpiredCheckpointForPlayers_PendingLeft(_, _, _, _)
processExpiredCheckpointForPlayers_PendingLeft(game, g, players, checkpointNumber) ==
  IF players = <<>> THEN g
  ELSE
    LET player == Head(players)
        playerCheckIns == getPlayerCheckInsCopy(g, player.id)
        Done(c) == /\ c.checkpointNumber = checkpointNumber
                   /\ c.status \in {"APPROVED", "PENDING"}
        i == FindIndex([j \in 1..Len(playerCheckIns) |->
                          Done(playerCheckIns[j])])
        g1 == IF player.foldedAtCheckpoint # Undefined THEN g
              ELSE IF i # 0 THEN g
              ELSE IF game.forceCashoutOnMiss THEN cashOut(g, player.id).g
              ELSE g
    IN processExpiredCheckpointForPlayers_PendingLeft(game, g1, Tail(players),
                                                      checkpointNumber)

RECURSIVE processExpiredCheckpointForPlayers(_, _, _, _)
processExpiredCheckpointForPlayers(game, g, players, checkpointNumber) ==
  IF players = <<>> THEN g
  ELSE
    LET player == Head(players)
        playerCheckIns == getPlayerCheckInsCopy(g, player.id)
        Done(c) == /\ c.checkpointNumber = checkpointNumber
                   /\ c.status \in {"APPROVED", "PENDING"}
        i == FindIndex([j \in 1..Len(playerCheckIns) |->
                          Done(playerCheckIns[j])])
        g1 == IF player.foldedAtCheckpoint # Undefined THEN g
              ELSE IF i # 0
                   THEN IF playerCheckIns[i].status = "PENDING"
                        THEN verifyCheckIn(g, playerCheckIns[i].id,
                                           game.gameMasterId, "APPROVED",
                                           "TIMEOUT_APPROVAL",
                                           "AUTOMATED_APPROVAL").g
                        ELSE g
              ELSE IF game.forceCashoutOnMiss THEN cashOut(g, player.id).g
              ELSE g
    IN processExpiredCheckpointForPlayers(game, g1, Tail(players),
                                          checkpointNumber)

\* Checkpoints checkpointNumber..N; timers counts handleLastCheckpointExpiry
RECURSIVE processCheckpointExpiry(_, _, _, _)
processCheckpointExpiry(game, g, t, checkpointNumber) ==
  IF checkpointNumber > Len(game.checkpoints) THEN [g |-> g, timers |-> 0]
  ELSE IF t < game.checkpoints[checkpointNumber]
       THEN processCheckpointExpiry(game, g, t, checkpointNumber + 1)
  ELSE
    LET g1 == processExpiredCheckpointForPlayers(game, g, game.players,
                                                 checkpointNumber)
        rest == processCheckpointExpiry(game, g1, t, checkpointNumber + 1)
    IN [g |-> rest.g,
        timers |-> rest.timers +
                   (IF checkpointNumber = Len(game.checkpoints) THEN 1 ELSE 0)]

\* Variant: a pass does not end a game whose end date has been reached
processGame_NoEnd(game, t) ==
  IF game.state = "WAITING_FOR_PLAYERS" /\ t >= game.startDate
  THEN [g |-> startGame(game, game.gameMasterId, t).g, timers |-> 0]
  ELSE IF game.state = "IN_PROGRESS" /\ t < game.endDate
  THEN processCheckpointExpiry(game, game, t, 1)
  ELSE [g |-> game, timers |-> 0]

\* The body of processGames' loop for one active game
processGame(game, t) ==
  IF game.state = "WAITING_FOR_PLAYERS" /\ t >= game.startDate
  THEN [g |-> startGame(game, game.gameMasterId, t).g, timers |-> 0]
  ELSE IF game.state = "IN_PROGRESS" /\ t >= game.endDate
  THEN [g |-> endGame(game, game.gameMasterId).g, timers |-> 0]
  ELSE IF game.state = "IN_PROGRESS"
  THEN processCheckpointExpiry(game, game, t, 1)
  ELSE [g |-> game, timers |-> 0]

\* ------------------------------------------------------------------------
\* Initial state and actions
\* ------------------------------------------------------------------------
\* The server is up: the listen callback has called backgroundWorker.start()
\* over the empty store
Init ==
  /\ games = [id \in {} |-> 0]
  /\ now = 0
  /\ endTimers = [gid \in GameIds |-> 0]
  /\ awaiting = {}
  /\ worker = [isRunning |-> TRUE, intervalId |-> "SET", intervals |-> 1]

\* uuidv4 gives the new game an id no stored game has
createGameStep(gid, cfg) ==
  /\ gid \notin DOMAIN games
  /\ createGame(games, gid, cfg).err = "OK"
  /\ games' = createGame(games, gid, cfg).store
  /\ UNCHANGED <<now, endTimers, awaiting, worker>>

CreateGame == \E gid \in GameIds, cfg \in Configs : createGameStep(gid, cfg)

\* Player ids are interchangeable: the i-th player to join is PlayerOrder[i]
joinGameStep(gid, pid, m) ==
  /\ gid \in DOMAIN games
  /\ Len(games[gid].players) < Len(PlayerOrder)
  /\ pid = PlayerOrder[Len(games[gid].players) + 1]
  /\ joinGame(games[gid], pid, m).err = "OK"
  /\ games' = [games EXCEPT ![gid] = joinGame(games[gid], pid, m).g]
  /\ UNCHANGED <<now, endTimers, awaiting, worker>>

JoinGame ==
  \E gid \in GameIds, pid \in PlayerIds, m \in Multipliers :
    joinGameStep(gid, pid, m)

startGameStep(gid, gm) ==
  /\ gid \in DOMAIN games
  /\ startGame(games[gid], gm, now).err = "OK"
  /\ games' = [games EXCEPT ![gid] = startGame(games[gid], gm, now).g]
  /\ UNCHANGED <<now, endTimers, awaiting, worker>>

StartGame == \E gid \in GameIds, gm \in GameMasterIds : startGameStep(gid, gm)

\* The step is taken when the check-in is created, also when the AI step
\* then fails and the check-in is deleted again.  The provider is consulted
\* in games with verification method AI only.
ProviderAnswers(gid) ==
  IF games[gid].verificationMethod = "AI" THEN AIDecisions ELSE {"NOT_ASKED"}

submitCheckInStep(gid, pid, k) ==
  /\ gid \in DOMAIN games
  /\ Len(games[gid].checkIns) < MaxCheckIns
  /\ submitCheckInGuard(games[gid], pid, k, now) = "OK"
  /\ \E ai \in ProviderAnswers(gid) :
       games' = [games EXCEPT
                   ![gid] = submitCheckIn(games[gid], pid, k, now, ai).g]
  /\ UNCHANGED <<now, endTimers, awaiting, worker>>

SubmitCheckIn ==
  \E gid \in GameIds, pid \in PlayerIds, k \in CheckpointNumbers :
    submitCheckInStep(gid, pid, k)

verifyCheckInStep(gid, cid, gm) ==
  /\ gid \in DOMAIN games
  /\ verifyCheckInGuard(games[gid], cid, gm) = "OK"
  /\ \E status \in {"APPROVED", "REJECTED"}, notes \in VerifierNotes :
       games' = [games EXCEPT
                   ![gid] = verifyCheckIn(games[gid], cid, gm, status,
                                          "GAMEMASTER", notes).g]
  /\ UNCHANGED <<now, endTimers, awaiting, worker>>

VerifyCheckIn ==
  \E gid \in GameIds, cid \in CheckInIds, gm \in GameMasterIds :
    verifyCheckInStep(gid, cid, gm)

cashOutStep(gid, pid) ==
  /\ gid \in DOMAIN games
  /\ cashOutGuard(games[gid], pid) = "OK"
  /\ games' = [games EXCEPT ![gid] = cashOut(games[gid], pid).g]
  /\ UNCHANGED <<now, endTimers, awaiting, worker>>

CashOut == \E gid \in GameIds, pid \in PlayerIds : cashOutStep(gid, pid)

endGameStep(gid, gm) ==
  /\ gid \in DOMAIN games
  /\ endGameGuard(games[gid], gm) = "OK"
  /\ games' = [games EXCEPT ![gid] = endGame(games[gid], gm).g]
  /\ UNCHANGED <<now, endTimers, awaiting, worker>>

EndGame == \E gid \in GameIds, gm \in GameMasterIds : endGameStep(gid, gm)

\* processGames: one pass over the games that are not ENDED.  The method
\* is synchronous, it runs from its first line to its last in one turn of
\* the event loop
processGames ==
  LET Active(gid) == games[gid].state # "ENDED"
      r == [gid \in DOMAIN games |->
              IF Active(gid) THEN processGame(games[gid], now)
              ELSE [g |-> games[gid], timers |-> 0]]
  IN /\ \A gid \in DOMAIN games : endTimers[gid] + r[gid].timers <= MaxTimers
     /\ games' = [gid \in DOMAIN games |-> r[gid].g]
     /\ endTimers' = [gid \in GameIds |->
                        endTimers[gid] +
                        (IF gid \in DOMAIN games THEN r[gid].timers ELSE 0)]

\* An interval set by start() and not cleared fires and runs one pass
ProcessGames ==
  /\ worker.intervals > 0
  /\ processGames
  /\ UNCHANGED <<now, awaiting, worker>>

\* A timer armed by handleLastCheckpointExpiry fires at endDate
EndTimer ==
  \E gid \in DOMAIN games :
    /\ endTimers[gid] > 0
    /\ now >= games[gid].endDate
    /\ games' = [games EXCEPT
                   ![gid] = endGame(games[gid], games[gid].gameMasterId).g]
    /\ endTimers' = [endTimers EXCEPT ![gid] = @ - 1]
    /\ UNCHANGED <<now, awaiting, worker>>

Tick ==
  /\ now < MaxTime
  /\ now' = now + 1
  /\ UNCHANGED <<games, endTimers, awaiting, worker>>

Next ==
  \/ CreateGame \/ JoinGame \/ StartGame \/ SubmitCheckIn \/ VerifyCheckIn
  \/ CashOut \/ EndGame \/ ProcessGames \/ EndTimer \/ Tick

Spec == Init /\ [][Next]_vars

\* ------------------------------------------------------------------------
\* submitCheckIn as the event loop runs it: the call is suspended at
\* await llm.verifyCheckIn and other commands run before it resumes
\* ------------------------------------------------------------------------
\* verifyCheckInWithAI from the await on: nothing is read from the store
\* again before the decision is applied; checkIn is the copy taken before
\* the await
verifyCheckInWithAIResumed(g, checkInId, playerId, ai) ==
  IF ai = "PROVIDER_FAILURE"
       THEN Ret(needsReviewCheckInUncheckedMut(g, checkInId, "AI", 0,
                                               "AI_VERIFICATION_FAILED"),
                "OK")
  ELSE IF ai = "APPROVED"
       THEN Ret(increasePlayerProgressUncheckedMut(
                  approveCheckInUncheckedMut(g, checkInId, "AI",
                                             VerificationConfidence,
                                             "AI_REASONING"),
                  playerId), "OK")
  ELSE IF ai = "REJECTED"
       THEN Ret(rejectCheckInUncheckedMut(g, checkInId, "AI",
                                          VerificationConfidence,
                                          "AI_REASONING"), "OK")
  ELSE IF ai = "NEEDS_REVIEW"
       THEN Ret(needsReviewCheckInUncheckedMut(g, checkInId, "AI",
                                               VerificationConfidence,
                                               "AI_REASONING"), "OK")
  ELSE Ret(g, "INVALID_SUBMISSION")

\* submitCheckIn from the return of verifyCheckInWithAI on
submitCheckInResumed(g, checkInId, playerId, ai) ==
  LET result == verifyCheckInWithAIResumed(g, checkInId, playerId, ai) IN
  IF result.err # "OK"
    THEN Ret(deleteCheckInUncheckedMut(result.g, checkInId), result.err)
    ELSE Ret(result.g, "OK")

\* submitCheckIn in an AI-verified game up to the await: the check-in is
\* stored and the request is on its way to the provider
submitCheckInBegin(gid, pid, k) ==
  /\ gid \in DOMAIN games
  /\ Len(games[gid].checkIns) < MaxCheckIns
  /\ Cardinality(awaiting) < MaxAwaiting
  /\ \A i \in 1..Len(games[gid].players) :
       games[gid].players[i].checkpointsCompleted < MaxProgress
  /\ submitCheckInGuard(games[gid], pid, k, now) = "OK"
  /\ games[gid].verificationMethod = "AI" /\ games[gid].aiVerification
  /\ LET uuid == uuidv4(games[gid])
         checkIn == [id |-> uuid, playerId |-> pid, checkpointNumber |-> k,
                     status |-> "PENDING", verifiedBy |-> "NONE",
                     aiConfidence |-> Undefined, notes |-> "NONE"]
     IN /\ games' = [games EXCEPT
                       ![gid] = addCheckInUncheckedMut(@, checkIn)]
        /\ awaiting' = awaiting \cup
                         {[gameId |-> gid, checkInId |-> uuid,
                           playerId |-> pid]}
  /\ UNCHANGED <<now, endTimers, worker>>

BeginSubmitCheckIn ==
  \E gid \in GameIds, pid \in PlayerIds, k \in CheckpointNumbers :
    submitCheckInBegin(gid, pid, k)

\* The provider's answer, or the failure to get one, arrives and the
\* suspended call runs to its end
ProviderResponds ==
  \E call \in awaiting, ai \in AIDecisions \ {"NO_API_KEY"} :
    /\ games' = [games EXCEPT
                   ![call.gameId] =
                     submitCheckInResumed(@, call.checkInId, call.playerId,
                                          ai).g]
    /\ awaiting' = awaiting \ {call}
    /\ UNCHANGED <<now, endTimers, worker>>

NextAsync ==
  \/ CreateGame \/ JoinGame \/ StartGame \/ SubmitCheckIn \/ VerifyCheckIn
  \/ CashOut \/ EndGame \/ ProcessGames \/ EndTimer \/ Tick
  \/ BeginSubmitCheckIn \/ ProviderResponds

SpecAsync == Init /\ [][NextAsync]_vars

\* A pass made while some game in progress has reached its end date
DuePass ==
  /\ \E gid \in DOMAIN games :
       games[gid].state = "IN_PROGRESS" /\ now >= games[gid].endDate
  /\ ProcessGames

\* While the worker is running, setInterval calls processGames again and
\* again: a pass that finds a game to end is eventually made
SpecFair == Init /\ [][Next]_vars /\ WF_vars(DuePass)

\* ------------------------------------------------------------------------
\* The life of the background worker: start() and stop()
\* ------------------------------------------------------------------------
\* BackgroundWorkerService as constructed
NewWorker == [isRunning |-> FALSE, intervalId |-> "NULL", intervals |-> 0]

\* Variant: start() does not look at isRunning
start_NoRunningCheck(w) ==
  [w |-> [isRunning |-> TRUE, intervalId |-> "SET",
          intervals |-> w.intervals + 1],
   passes |-> 1]

\* start(): the fields of the worker after the call and the number of
\* passes the call itself runs
start(w) ==
  IF w.isRunning THEN [w |-> w, passes |-> 0]
  ELSE [w |-> [isRunning |-> TRUE, intervalId |-> "SET",
               intervals |-> w.intervals + 1],
        passes |-> 1]

\* stop(): clearInterval on the handle the worker holds
stop(w) ==
  IF ~w.isRunning THEN w
  ELSE [isRunning |-> FALSE, intervalId |-> "NULL",
        intervals |-> IF w.intervalId # "NULL" THEN w.intervals - 1
                      ELSE w.intervals]

StartWorker ==
  /\ worker' = start(worker).w
  /\ IF start(worker).passes > 0 THEN processGames
     ELSE UNCHANGED <<games, endTimers>>
  /\ UNCHANGED <<now, awaiting>>

StopWorker ==
  /\ worker' = stop(worker)
  /\ UNCHANGED <<games, now, endTimers, awaiting>>

InitWorker ==
  /\ games = [id \in {} |-> 0]
  /\ now = 0
  /\ endTimers = [gid \in GameIds |-> 0]
  /\ awaiting = {}
  /\ worker = NewWorker

NextWorker ==
  \/ CreateGame \/ JoinGame \/ StartGame \/ SubmitCheckIn \/ VerifyCheckIn
  \/ CashOut \/ EndGame \/ ProcessGames \/ EndTimer \/ Tick
  \/ StartWorker \/ StopWorker

SpecWorker == InitWorker /\ [][NextWorker]_vars

\* ------------------------------------------------------------------------
\* Derived quantities of a game
\* ------------------------------------------------------------------------
\* The transactions of g whose type is one of types
TransactionsOf(g, types) ==
  LET Of(t) == t.type \in types IN SelectSeq(g.transactions, Of)

\* The sum of the amounts of the transactions of g of the given types
TransactionSum(g, types) ==
  LET txs == TransactionsOf(g, types)
  IN SumSeq([i \in 1..Len(txs) |-> txs[i].amount])

\* What the cash-outs of g forfeited: stake minus amount of every CASHOUT
Forfeited(g) ==
  LET txs == TransactionsOf(g, {"CASHOUT"})
  IN SumSeq([i \in 1..Len(txs) |->
               Stake(g, getPlayerUncheckedCopy(g, txs[i].playerId))
                 - txs[i].amount])

\* bonusWon of a player, nothing when it is not set
BonusOf(p) == IF p.bonusWon = Undefined THEN 0 ELSE p.bonusWon

\* The bonuses recorded on the players of g
Distributed(g) == SumSeq([i \in 1..Len(g.players) |-> BonusOf(g.players[i])])

Folded(p) == p.foldedAtCheckpoint # Undefined

\* The players that endGame treats as winners
Winners(g) ==
  LET Winner(p) == /\ ~Folded(p)
                   /\ p.checkpointsCompleted = Len(g.checkpoints)
  IN SelectSeq(g.players, Winner)

C2_NoMoneyCreated ==
  \A gid \in DOMAIN games :
    LET g == games[gid]
        cashouts == TransactionsOf(g, {"CASHOUT"})
    IN /\ TransactionSum(g, {"CASHOUT", "PAYOUT", "REFUND"})
            <= TransactionSum(g, {"INITIAL_STAKE"})
       /\ \A i \in 1..Len(cashouts) :
            /\ cashouts[i].amount >= 0
            /\ cashouts[i].amount
                 <= Stake(g, getPlayerUncheckedCopy(g, cashouts[i].playerId))

\* an ended game with a cash-out and a payout that carries a bonus
C2_Witness ==
  \E gid \in DOMAIN games :
    LET g == games[gid]
        payouts == TransactionsOf(g, {"PAYOUT"})
    IN /\ g.state = "ENDED"
       /\ Len(TransactionsOf(g, {"CASHOUT"})) > 0
       /\ \E i \in 1..Len(payouts) :
            payouts[i].amount
              > Stake(g, getPlayerUncheckedCopy(g, payouts[i].playerId))

\* ------------------------------------------------------------------------
\* C3
\* ------------------------------------------------------------------------
\* C3: in every reachable state bonusPool equals the amounts forfeited by
\* all cash-outs minus the bonuses distributed, so that after endGame has
\* paid the winners only the floor remainder is left in it.
C3_BonusPoolBalance ==
  \A gid \in DOMAIN games :
    games[gid].bonusPool = Forfeited(games[gid]) - Distributed(games[gid])

\* ------------------------------------------------------------------------
\* C4
\* ------------------------------------------------------------------------
\* C4: once endGame has run, each winner's bonusWon is
\* floor(winnerStake * bonusPool / sum of the winners' stakes), bonusPool
\* being the pool that is distributed (everything the cash-outs of the game
\* forfeited, those forced by endGame included), and the winners' bonuses
\* sum to at most that pool.
C4_BonusShares ==
  \A gid \in DOMAIN games :
    LET g == games[gid]
        winners == Winners(g)
        totalWinnerStakes ==
          SumSeq([i \in 1..Len(winners) |-> Stake(g, winners[i])])
    IN g.state = "ENDED" =>
         /\ \A i \in 1..Len(winners) :
              BonusOf(winners[i])
                = (Stake(g, winners[i]) * Forfeited(g)) \div totalWinnerStakes
         /\ Distributed(g) <= Forfeited(g)

\* ------------------------------------------------------------------------
\* C5
\* ------------------------------------------------------------------------
\* C5: over every step (command or scheduler pass run to completion) no
\* player's checkpointsCompleted decreases, and after the step it does not
\* exceed the number of checkpoints of the game.
C5_MonotonicProgress ==
  [][\A gid \in DOMAIN games' :
       \A i \in 1..Len(games'[gid].players) :
         /\ games'[gid].players[i].checkpointsCompleted
              <= Len(games'[gid].checkpoints)
         /\ (gid \in DOMAIN games /\ i <= Len(games[gid].players)) =>
              /\ games'[gid].players[i].id = games[gid].players[i].id
              /\ games'[gid].players[i].checkpointsCompleted
                   >= games[gid].players[i].checkpointsCompleted]_vars

\* a player who completed every checkpoint, in a game that has ended, beside
\* a check-in that was turned down
C5_Witness ==
  \E gid \in DOMAIN games :
    /\ games[gid].state = "ENDED"
    /\ \E i \in 1..Len(games[gid].players) :
         games[gid].players[i].checkpointsCompleted
           = Len(games[gid].checkpoints)
    /\ \E j \in 1..Len(games[gid].checkIns) :
         games[gid].checkIns[j].status = "REJECTED"

\* ------------------------------------------------------------------------
\* C6
\* ------------------------------------------------------------------------
\* The CASHOUT transactions of one player
CashoutsOf(g, playerId) ==
  LET Mine(t) == t.type = "CASHOUT" /\ t.playerId = playerId
  IN SelectSeq(g.transactions, Mine)

\* C6 as stated: cashOut on a folded player fails with PLAYER_ALREADY_FOLDED
\* whatever the state of the game and changes nothing, and no player has
\* more than one CASHOUT transaction.
C6_AlwaysAlreadyFolded ==
  \A gid \in DOMAIN games :
    \A i \in 1..Len(games[gid].players) :
      LET g == games[gid]
          p == g.players[i]
      IN /\ Folded(p) => cashOut(g, p.id) = Ret(g, "PLAYER_ALREADY_FOLDED")
         /\ Len(CashoutsOf(g, p.id)) <= 1

\* C6, amended: cashOut on a folded player always fails and changes nothing,
\* with PLAYER_ALREADY_FOLDED while the game is IN_PROGRESS and with
\* GAME_NOT_STARTED in every other state (the state is checked first); no
\* player has more than one CASHOUT transaction.
C6_FoldIdempotence ==
  \A gid \in DOMAIN games :
    \A i \in 1..Len(games[gid].players) :
      LET g == games[gid]
          p == g.players[i]
      IN /\ Folded(p) =>
              cashOut(g, p.id) =
                Ret(g, IF g.state = "IN_PROGRESS" THEN "PLAYER_ALREADY_FOLDED"
                       ELSE "GAME_NOT_STARTED")
         /\ Len(CashoutsOf(g, p.id)) <= 1

\* a folded player with a CASHOUT transaction in a game still in progress
\* past a checkpoint expiry, where the scheduler forces cash-outs
C6_Witness ==
  \E gid \in DOMAIN games :
    /\ games[gid].state = "IN_PROGRESS"
    /\ games[gid].forceCashoutOnMiss
    /\ now >= games[gid].checkpoints[1]
    /\ \E i \in 1..Len(games[gid].players) :
         /\ Folded(games[gid].players[i])
         /\ Len(CashoutsOf(games[gid], games[gid].players[i].id)) = 1

\* ------------------------------------------------------------------------
\* C7
\* ------------------------------------------------------------------------
\* The check-ins of a player for one checkpoint
CheckInsFor(g, playerId, checkpointNumber) ==
  LET Mine(c) == /\ c.playerId = playerId
                 /\ c.checkpointNumber = checkpointNumber
  IN SelectSeq(g.checkIns, Mine)

\* A PENDING or APPROVED check-in exists for the player and the checkpoint
Blocked(g, playerId, checkpointNumber) ==
  \E c \in Range(CheckInsFor(g, playerId, checkpointNumber)) :
    c.status \in {"PENDING", "APPROVED"}

\* Check-ins exist for the player and the checkpoint, all of them REJECTED,
\* and the other preconditions of a submission hold
Resubmittable(g, playerId, checkpointNumber, t) ==
  /\ g.state = "IN_PROGRESS"
  /\ checkpointNumber >= 1
  /\ checkpointNumber <= Len(g.checkpoints)
  /\ t <= g.checkpoints[checkpointNumber]
  /\ PlayerIndex(g, playerId) # 0
  /\ ~Folded(getPlayerUncheckedCopy(g, playerId))
  /\ CheckInsFor(g, playerId, checkpointNumber) # <<>>
  /\ \A c \in Range(CheckInsFor(g, playerId, checkpointNumber)) :
       c.status = "REJECTED"

\* The submission failed and left the game as it was
SubmissionRefused(g, r) == r.err # "OK" /\ r.g = g

\* The submission succeeded and added one check-in, of the given status
SubmissionAdded(g, r, playerId, checkpointNumber, status) ==
  /\ r.err = "OK"
  /\ Len(r.g.checkIns) = Len(g.checkIns) + 1
  /\ SubSeq(r.g.checkIns, 1, Len(g.checkIns)) = g.checkIns
  /\ r.g.checkIns[Len(r.g.checkIns)].playerId = playerId
  /\ r.g.checkIns[Len(r.g.checkIns)].checkpointNumber = checkpointNumber
  /\ r.g.checkIns[Len(r.g.checkIns)].status = status

ResubmissionsGated ==
  \A gid \in DOMAIN games :
    \A pid \in Callers(games[gid]), k \in CheckpointInputs(games[gid]) :
      LET g == games[gid]
          r(ai) == submitCheckIn(g, pid, k, now, ai)
      IN /\ Blocked(g, pid, k) =>
              \A ai \in ProviderAnswers(gid) : SubmissionRefused(g, r(ai))
         /\ Resubmittable(g, pid, k, now) =>
              \A ai \in ProviderAnswers(gid) :
                IF g.verificationMethod # "AI"
                THEN SubmissionAdded(g, r(ai), pid, k, "PENDING")
                ELSE IF ai \in {"APPROVED", "REJECTED"}
                THEN SubmissionAdded(g, r(ai), pid, k, ai)
                ELSE IF ai \in {"NEEDS_REVIEW", "PROVIDER_FAILURE"}
                THEN SubmissionAdded(g, r(ai), pid, k, "PENDING")
                ELSE SubmissionRefused(g, r(ai))

C8_GameStateMachine ==
  [][\A gid \in DOMAIN games :
       /\ gid \in DOMAIN games'
       /\ \/ games'[gid].state = games[gid].state
          \/ /\ games[gid].state = "WAITING_FOR_PLAYERS"
             /\ games'[gid].state = "IN_PROGRESS"
          \/ /\ games[gid].state = "IN_PROGRESS"
             /\ games'[gid].state \in {"ENDED", "ABORTED_MID_GAME"}]_vars

\* an ended game on which the scheduler still has an end timer to fire
C8_Witness ==
  \E gid \in DOMAIN games :
    /\ games[gid].state = "ENDED"
    /\ endTimers[gid] > 0
    /\ now >= games[gid].endDate

\* ------------------------------------------------------------------------
\* C9
\* ------------------------------------------------------------------------
\* verifyCheckIn by the game master on every APPROVED or REJECTED check-in
\* returns an error and leaves the game (the check-in and the player's
\* checkpointsCompleted with it) as it was
TerminalCheckInsRefused ==
  \A gid \in DOMAIN games :
    \A c \in Range(games[gid].checkIns) :
      c.status \in {"APPROVED", "REJECTED"} =>
        \A status \in {"APPROVED", "REJECTED"},
           verifiedBy \in {"GAMEMASTER", "TIMEOUT_APPROVAL"} :
          LET r == verifyCheckIn(games[gid], c.id, games[gid].gameMasterId,
                                 status, verifiedBy, "GM_NOTES")
          IN r.err # "OK" /\ r.g = games[gid]

\* C9: over every step a check-in stays in place and keeps its status or
\* goes from PENDING to APPROVED or to REJECTED, so an APPROVED or REJECTED
\* check-in never changes status again; and in every reachable state
\* verifyCheckIn on such a check-in returns an error and changes nothing.
C9_CheckInStateMachine ==
  /\ [][\A gid \in DOMAIN games :
         \A i \in 1..Len(games[gid].checkIns) :
           /\ i <= Len(games'[gid].checkIns)
           /\ games'[gid].checkIns[i].id = games[gid].checkIns[i].id
           /\ \/ games'[gid].checkIns[i].status = games[gid].checkIns[i].status
              \/ /\ games[gid].checkIns[i].status = "PENDING"
                 /\ games'[gid].checkIns[i].status
                      \in {"APPROVED", "REJECTED"}]_vars
  /\ []TerminalCheckInsRefused

\* a game in progress with an APPROVED and a REJECTED check-in, whose
\* player has not folded
C9_Witness ==
  \E gid \in DOMAIN games :
    /\ games[gid].state = "IN_PROGRESS"
    /\ \E c, d \in Range(games[gid].checkIns) :
         /\ c.status = "APPROVED"
         /\ d.status = "REJECTED"
         /\ ~Folded(getPlayerUncheckedCopy(games[gid], c.playerId))
         /\ ~Folded(getPlayerUncheckedCopy(games[gid], d.playerId))

\* ------------------------------------------------------------------------
\* C10
\* ------------------------------------------------------------------------
\* C10: on every game, in every state of it, startGame and endGame called
\* with a game master id other than the game's, and verifyCheckIn so called
\* on any check-in of the game, whatever its status, return
\* UNAUTHORIZED_GAME_MASTER and leave the game as it was.
C10_AuthorizationFirst ==
  \A gid \in DOMAIN games :
    \A gm \in GameMasterIds \ {games[gid].gameMasterId} :
      LET g == games[gid] IN
      /\ \A t \in 0..MaxTime :
           startGame(g, gm, t) = Ret(g, "UNAUTHORIZED_GAME_MASTER")
      /\ endGame(g, gm) = Ret(g, "UNAUTHORIZED_GAME_MASTER")
      /\ \A c \in Range(g.checkIns) :
           \A status \in {"APPROVED", "REJECTED"} :
             verifyCheckIn(g, c.id, gm, status, "GAMEMASTER", "GM_NOTES")
               = Ret(g, "UNAUTHORIZED_GAME_MASTER")

\* the state checks would turn the game master away: an ended game holding
\* an APPROVED check-in and a PENDING one
C10_Witness ==
  \E gid \in DOMAIN games :
    /\ games[gid].state = "ENDED"
    /\ endGame(games[gid], games[gid].gameMasterId).err = "GAME_ALREADY_ENDED"
    /\ \E c, d \in Range(games[gid].checkIns) :
         c.status = "APPROVED" /\ d.status = "PENDING"

\* ------------------------------------------------------------------------
\* C11
\* ------------------------------------------------------------------------
\* C11: on every game and for every player id and multiplier, joinGame
\* succeeds exactly when the game is WAITING_FOR_PLAYERS, holds fewer than
\* maxPlayers players, does not hold the player id, and the multiplier is at
\* most maxMultiplier; a successful join appends one player
\* (checkpointsCompleted 0, not folded), appends one INITIAL_STAKE
\* transaction of stackSize * multiplier, adds that amount to totalPool and
\* changes nothing else; a rejected join leaves the game as it was.
C11_JoinGame ==
  \A gid \in DOMAIN games :
    \A pid \in PlayerIds, m \in Multipliers :
      LET g == games[gid]
          r == joinGame(g, pid, m)
          accepted == /\ g.state = "WAITING_FOR_PLAYERS"
                      /\ Len(g.players) < g.maxPlayers
                      /\ \A p \in Range(g.players) : p.id # pid
                      /\ m <= g.maxMultiplier
      IN /\ (r.err = "OK") <=> accepted
         /\ accepted =>
              r.g = [g EXCEPT
                       !.players =
                         Append(@, [id |-> pid, multiplier |-> m,
                                    checkpointsCompleted |-> 0,
                                    foldedAtCheckpoint |-> Undefined,
                                    bonusWon |-> Undefined]),
                       !.transactions =
                         Append(@, [playerId |-> pid, type |-> "INITIAL_STAKE",
                                    amount |-> g.stackSize * m]),
                       !.totalPool = @ + g.stackSize * m]
         /\ ~accepted => r.g = g

\* a game still waiting that players have joined until it was full
C11_Witness ==
  \E gid \in DOMAIN games :
    /\ games[gid].state = "WAITING_FOR_PLAYERS"
    /\ Len(games[gid].players) = games[gid].maxPlayers
    /\ games[gid].totalPool
         = games[gid].maxPlayers * games[gid].stackSize * games[gid].maxMultiplier

\* ------------------------------------------------------------------------
\* C12
\* ------------------------------------------------------------------------
\* C12: on every game, for every caller and time of the call, startGame
\* succeeds exactly when the caller is the game master, the game is
\* WAITING_FOR_PLAYERS, the time is not before startDate and not more than
\* one hour after it, and at least minPlayers players have joined; it then
\* sets the state to IN_PROGRESS and changes nothing else, and in every
\* other case it returns an error and leaves the game as it was.
C12_StartGame ==
  \A gid \in DOMAIN games :
    \A gm \in GameMasterIds, t \in 0..MaxTime :
      LET g == games[gid]
          r == startGame(g, gm, t)
          accepted == /\ gm = g.gameMasterId
                      /\ g.state = "WAITING_FOR_PLAYERS"
                      /\ t >= g.startDate
                      /\ t <= g.startDate + OneHour
                      /\ Len(g.players) >= g.minPlayers
      IN /\ (r.err = "OK") <=> accepted
         /\ accepted => r.g = [g EXCEPT !.state = "IN_PROGRESS"]
         /\ ~accepted => r.g = g

\* a game that was started at its startDate with just enough players
C12_Witness ==
  \E gid \in DOMAIN games :
    /\ games[gid].state = "IN_PROGRESS"
    /\ now = games[gid].startDate
    /\ Len(games[gid].players) = games[gid].minPlayers
    /\ games[gid].checkIns = <<>>

FoldedOrComplete(g) ==
  \A p \in Range(g.players) :
    \/ Folded(p) /\ Len(CashoutsOf(g, p.id)) = 1
    \/ p.checkpointsCompleted = Len(g.checkpoints)

\* C14: every ENDED game has each player folded with a CASHOUT transaction
\* or complete; and endGame by the game master on a game IN_PROGRESS
\* succeeds, leaves the game ENDED, and has cashed out every player who was
\* active and incomplete exactly as cashOut does on its own (folded at the
\* player's checkpointsCompleted, one CASHOUT transaction of the cash-out
\* amount), leaving the fold marks of the other players alone.
C14_EndGameCashesOut ==
  \A gid \in DOMAIN games :
    LET g == games[gid]
        r == endGame(g, g.gameMasterId)
    IN /\ g.state = "ENDED" => FoldedOrComplete(g)
       /\ g.state = "IN_PROGRESS" =>
            /\ r.err = "OK"
            /\ r.g.state = "ENDED"
            /\ FoldedOrComplete(r.g)
            /\ Len(r.g.players) = Len(g.players)
            /\ \A i \in 1..Len(g.players) :
                 LET p == g.players[i]
                     own == cashOut(g, p.id).g
                 IN IF ~Folded(p)
                       /\ p.checkpointsCompleted # Len(g.checkpoints)
                    THEN /\ r.g.players[i].foldedAtCheckpoint
                              = p.checkpointsCompleted
                         /\ CashoutsOf(r.g, p.id) = CashoutsOf(own, p.id)
                    ELSE /\ r.g.players[i].foldedAtCheckpoint
                              = p.foldedAtCheckpoint
                         /\ CashoutsOf(r.g, p.id) = CashoutsOf(g, p.id)

\* an ended game in which nobody completed anything and everybody was
\* cashed out, while a check-in was still waiting for its verification
C14_Witness ==
  \E gid \in DOMAIN games :
    /\ games[gid].state = "ENDED"
    /\ \A p \in Range(games[gid].players) :
         p.foldedAtCheckpoint = 0 /\ Len(CashoutsOf(games[gid], p.id)) = 1
    /\ \E c \in Range(games[gid].checkIns) : c.status = "PENDING"

\* ------------------------------------------------------------------------
\* C15
\* ------------------------------------------------------------------------
\* The players of g that endGame cashes out: active and incomplete
ActiveIncomplete(g) ==
  LET Incomplete(p) == /\ ~Folded(p)
                       /\ p.checkpointsCompleted # Len(g.checkpoints)
  IN SelectSeq(g.players, Incomplete)

\* C15: endGame by the game master on a game IN_PROGRESS gives every winner
\* the floor share of the bonus pool as it stands after the forced
\* cash-outs of the same call, the amounts they forfeited included.
C15_SharesAfterForcedCashOuts ==
  \A gid \in DOMAIN games :
    LET g == games[gid]
        r == endGame(g, g.gameMasterId)
        poolAfterCashOuts == CashOutEach(g, ActiveIncomplete(g)).bonusPool
        winners == Winners(g)
        totalWinnerStakes ==
          SumSeq([i \in 1..Len(winners) |-> Stake(g, winners[i])])
    IN g.state = "IN_PROGRESS" =>
         \A i \in 1..Len(winners) :
           BonusOf(getPlayerUncheckedCopy(r.g, winners[i].id))
             = (Stake(g, winners[i]) * poolAfterCashOuts)
                 \div totalWinnerStakes

\* ------------------------------------------------------------------------
\* C16
\* ------------------------------------------------------------------------
\* The PAYOUT transactions of one player
PayoutsOf(g, playerId) ==
  LET Mine(t) == t.type = "PAYOUT" /\ t.playerId = playerId
  IN SelectSeq(g.transactions, Mine)

\* C16: in every ENDED game each winner (not folded, every checkpoint
\* completed) has bonusWon recorded and exactly one PAYOUT transaction, of
\* the stake plus bonusWon, whatever the bonus pool was; a folded player has
\* neither a PAYOUT transaction nor a bonusWon.
C16_WinnersPaid ==
  \A gid \in DOMAIN games :
    LET g == games[gid] IN
    g.state = "ENDED" =>
      \A p \in Range(g.players) :
        /\ (~Folded(p) /\ p.checkpointsCompleted = Len(g.checkpoints)) =>
             /\ p.bonusWon # Undefined
             /\ Len(PayoutsOf(g, p.id)) = 1
             /\ PayoutsOf(g, p.id)[1].amount = Stake(g, p) + p.bonusWon
        /\ Folded(p) =>
             /\ p.bonusWon = Undefined
             /\ PayoutsOf(g, p.id) = <<>>

\* ------------------------------------------------------------------------
\* C17
\* ------------------------------------------------------------------------
\* endGame by the game master on a game WAITING_FOR_PLAYERS or ENDED returns
\* an error and leaves the game as it was, and no player has more than one
\* CASHOUT or more than one PAYOUT transaction
EndRefusedOutsidePlay ==
  \A gid \in DOMAIN games :
    LET g == games[gid] IN
    /\ g.state = "WAITING_FOR_PLAYERS" =>
         endGame(g, g.gameMasterId) = Ret(g, "GAME_NOT_STARTED")
    /\ g.state = "ENDED" =>
         endGame(g, g.gameMasterId) = Ret(g, "GAME_ALREADY_ENDED")
    /\ \A p \in Range(g.players) :
         Len(CashoutsOf(g, p.id)) <= 1 /\ Len(PayoutsOf(g, p.id)) <= 1

\* C17: endGame by the game master fails and changes nothing on a game
\* that is WAITING_FOR_PLAYERS or ENDED, and no step (game master, scheduler
\* poll, scheduler timer) changes anything of a game that is ENDED, so the
\* forced cash-outs and the PAYOUT transactions are produced at most once.
C17_EndOnlyOnce ==
  /\ [][\A gid \in DOMAIN games :
         games[gid].state = "ENDED" =>
           gid \in DOMAIN games' /\ games'[gid] = games[gid]]_vars
  /\ []EndRefusedOutsidePlay

\* an ended game with a payout on which an end timer of the scheduler is
\* still due
C17_Witness ==
  \E gid \in DOMAIN games :
    /\ games[gid].state = "ENDED"
    /\ TransactionsOf(games[gid], {"PAYOUT"}) # <<>>
    /\ endTimers[gid] > 0

\* ------------------------------------------------------------------------
\* C18
\* ------------------------------------------------------------------------
\* The command surface of GameService on a stored game: the game after each
\* call of a command that takes a game, for every input, at time t
CommandSurface(g, t) ==
  { joinGame(g, pid, m).g : pid \in PlayerIds, m \in Multipliers }
    \cup { startGame(g, gm, t).g : gm \in GameMasterIds }
    \cup { submitCheckIn(g, pid, k, t, ai).g :
             pid \in PlayerIds, k \in CheckpointNumbers, ai \in AIDecisions }
    \cup { verifyCheckIn(g, cid, gm, status, "GAMEMASTER", notes).g :
             cid \in CheckInIds, gm \in GameMasterIds,
             status \in {"APPROVED", "REJECTED"}, notes \in VerifierNotes }
    \cup { cashOut(g, pid).g : pid \in PlayerIds }
    \cup { endGame(g, gm).g : gm \in GameMasterIds }

\* The REFUND transactions of one player
RefundsOf(g, playerId) ==
  LET Mine(t) == t.type = "REFUND" /\ t.playerId = playerId
  IN SelectSeq(g.transactions, Mine)

\* C18: on every game IN_PROGRESS the command surface offers the game
\* master an abort: a command after which the game is aborted, bonusPool is
\* 0, every player who was not folded has one REFUND transaction of the
\* full stake, and no folded player has a REFUND transaction.
C18_AbortOffered ==
  \A gid \in DOMAIN games :
    LET g == games[gid] IN
    g.state = "IN_PROGRESS" =>
      \E a \in CommandSurface(g, now) :
        /\ a.state \in {"ABORTED", "ABORTED_MID_GAME"}
        /\ a.bonusPool = 0
        /\ \A p \in Range(g.players) :
             IF Folded(p) THEN RefundsOf(a, p.id) = <<>>
             ELSE /\ Len(RefundsOf(a, p.id)) = 1
                  /\ RefundsOf(a, p.id)[1].amount = Stake(g, p)

\* ------------------------------------------------------------------------
\* C19
\* ------------------------------------------------------------------------
\* The preconditions of a submission other than the resubmission gate
Submittable(g, playerId, checkpointNumber, t) ==
  /\ g.state = "IN_PROGRESS"
  /\ checkpointNumber >= 1
  /\ checkpointNumber <= Len(g.checkpoints)
  /\ t <= g.checkpoints[checkpointNumber]
  /\ PlayerIndex(g, playerId) # 0
  /\ ~Folded(getPlayerUncheckedCopy(g, playerId))

\* The preconditions and the effect of submitCheckIn, on every game of
\* this state and for every input
SubmissionsGuarded ==
  \A gid \in DOMAIN games :
    \A pid \in Callers(games[gid]), k \in CheckpointInputs(games[gid]) :
      LET g == games[gid]
          r(ai) == submitCheckIn(g, pid, k, now, ai)
      IN IF ~Submittable(g, pid, k, now)
         THEN \A ai \in ProviderAnswers(gid) : SubmissionRefused(g, r(ai))
         ELSE g.verificationMethod # "AI" =>
                IF Blocked(g, pid, k)
                THEN SubmissionRefused(g, r("NOT_ASKED"))
                ELSE /\ SubmissionAdded(g, r("NOT_ASKED"), pid, k, "PENDING")
                     /\ r("NOT_ASKED").g.players = g.players

AIVerified(g, playerId, checkpointNumber, status, progress) ==
  [g EXCEPT
     !.checkIns =
       Append(@, [id |-> uuidv4(g), playerId |-> playerId,
                  checkpointNumber |-> checkpointNumber,
                  status |-> status, verifiedBy |-> "AI",
                  aiConfidence |-> VerificationConfidence,
                  notes |-> "AI_REASONING"]),
     !.players[PlayerIndex(g, playerId)].checkpointsCompleted = @ + progress]

\* C20: on every game with verification method AI, for every submission
\* whose preconditions hold: when the provider answers APPROVED the
\* check-in is added APPROVED with verifiedBy AI and the player's
\* checkpointsCompleted goes up by exactly one; when it answers REJECTED
\* the check-in is added REJECTED with verifiedBy AI and the players are as
\* they were; when it answers NEEDS_REVIEW the check-in is added PENDING
\* with verifiedBy AI, the confidence and the reasoning of the answer, the
\* players are as they were, and the game master can still approve or
\* reject the check-in.
C20_AIVerification ==
  \A gid \in DOMAIN games :
    \A pid \in Callers(games[gid]), k \in CheckpointInputs(games[gid]) :
      LET g == games[gid]
          submitted(ai) == submitCheckIn(g, pid, k, now, ai)
      IN (/\ g.verificationMethod = "AI"
          /\ Submittable(g, pid, k, now)
          /\ ~Blocked(g, pid, k)) =>
           /\ submitted("APPROVED")
                = Ret(AIVerified(g, pid, k, "APPROVED", 1), "OK")
           /\ submitted("REJECTED")
                = Ret(AIVerified(g, pid, k, "REJECTED", 0), "OK")
           /\ submitted("NEEDS_REVIEW")
                = Ret(AIVerified(g, pid, k, "PENDING", 0), "OK")
           /\ \A status \in {"APPROVED", "REJECTED"},
                 notes \in VerifierNotes :
                LET r == verifyCheckIn(submitted("NEEDS_REVIEW").g, uuidv4(g),
                                       g.gameMasterId, status, "GAMEMASTER",
                                       notes)
                IN /\ r.err = "OK"
                   /\ r.g.checkIns[Len(r.g.checkIns)].status = status
                   /\ r.g.checkIns[Len(r.g.checkIns)].verifiedBy
                        = "GAMEMASTER"

\* an AI-verified game in which the provider approved the check-in of one
\* player, who has completed one checkpoint, and asked for a review of the
\* check-in of another, which is PENDING with the reasoning attached
C20_Witness ==
  \E gid \in DOMAIN games :
    LET g == games[gid] IN
    /\ g.verificationMethod = "AI"
    /\ \E c \in Range(g.checkIns) :
         /\ c.status = "APPROVED" /\ c.verifiedBy = "AI"
         /\ getPlayerUncheckedCopy(g, c.playerId).checkpointsCompleted = 1
    /\ \E c \in Range(g.checkIns) :
         /\ c.status = "PENDING" /\ c.verifiedBy = "AI"
         /\ c.aiConfidence = VerificationConfidence
         /\ c.notes = "AI_REASONING"

FailedResponses ==
  { response \in ProviderResponses :
      response.kind \in {"MEDIA_ERROR", "NETWORK_ERROR", "HTTP_ERROR",
                         "NO_CONTENT", "NO_JSON", "BAD_JSON"} }

\* The game after a submission whose provider call failed: the check-in is
\* added PENDING with verifiedBy AI, confidence 0 and the note of the
\* failure, and nothing else has changed
AIFailed(g, playerId, checkpointNumber) ==
  [g EXCEPT
     !.checkIns =
       Append(@, [id |-> uuidv4(g), playerId |-> playerId,
                  checkpointNumber |-> checkpointNumber,
                  status |-> "PENDING", verifiedBy |-> "AI",
                  aiConfidence |-> 0,
                  notes |-> "AI_VERIFICATION_FAILED"])]

\* C22: on every game with verification method AI, for every submission
\* whose preconditions hold, when the call of the provider fails (no
\* request, transport error, non-success HTTP status, payload without
\* content or that cannot be parsed) submitCheckIn reports success and the
\* check-in is kept PENDING with verifiedBy AI, confidence 0 and an
\* explanatory note; the players and the rest of the game are as before.
C22_ProviderFailureKeepsCheckIn ==
  \A gid \in DOMAIN games :
    \A pid \in Callers(games[gid]), k \in CheckpointInputs(games[gid]) :
      LET g == games[gid] IN
      (/\ g.verificationMethod = "AI"
       /\ Submittable(g, pid, k, now)
       /\ ~Blocked(g, pid, k)) =>
        \A response \in FailedResponses :
          submitCheckIn(g, pid, k, now, LLMverifyCheckIn(response))
            = Ret(AIFailed(g, pid, k), "OK")

\* an AI-verified game holding a check-in left PENDING by a failed provider
\* call, whose player has completed no checkpoint
C22_Witness ==
  \E gid \in DOMAIN games :
    LET g == games[gid] IN
    /\ g.verificationMethod = "AI"
    /\ \E c \in Range(g.checkIns) :
         /\ c.status = "PENDING" /\ c.verifiedBy = "AI"
         /\ c.aiConfidence = 0 /\ c.notes = "AI_VERIFICATION_FAILED"
         /\ getPlayerUncheckedCopy(g, c.playerId).checkpointsCompleted = 0

\* ------------------------------------------------------------------------
\* C23
\* ------------------------------------------------------------------------
\* The responses that are not a JSON object with one of the four decisions
\* and a confidence the schema accepts
MalformedResponses ==
  { response \in ProviderResponses :
      \/ response.kind # "JSON"
      \/ response.decision \notin Decisions
      \/ /\ response.confidence # Undefined
         /\ (response.confidence < 10 \/ response.confidence > 100) }

\* C23 as stated: on every game with verification method AI, for every
\* submission whose preconditions hold, every malformed response of the
\* provider, a JSON object without a valid decision included, makes
\* submitCheckIn succeed and leaves the new check-in PENDING for review:
\* never REJECTED, never rolled back.
C23_MalformedIsFailure ==
  \A gid \in DOMAIN games :
    \A pid \in Callers(games[gid]), k \in CheckpointInputs(games[gid]) :
      LET g == games[gid] IN
      (/\ g.verificationMethod = "AI"
       /\ Submittable(g, pid, k, now)
       /\ ~Blocked(g, pid, k)) =>
        \A response \in MalformedResponses :
          submitCheckIn(g, pid, k, now, LLMverifyCheckIn(response))
            = Ret(AIFailed(g, pid, k), "OK")

\* ------------------------------------------------------------------------
\* C24  createGame stores a game only if the end date is after the start
\*      date, every checkpoint expiry lies within [startDate, endDate], the
\*      expiries are non-decreasing and an AI verification config is present
\*      if and only if the verification method is AI; the stored game is in
\*      WAITING_FOR_PLAYERS with no players, check-ins or transactions and
\*      zero totalPool, totalCashouts and bonusPool; a rejected creation
\*      stores nothing.
\*      The schema only asks for the AI settings when the method is AI: a
\*      manually verified game that carries AI settings is stored.
\* ------------------------------------------------------------------------
FreshlyCreated(g) ==
  /\ g.state = "WAITING_FOR_PLAYERS"
  /\ g.players = <<>> /\ g.checkIns = <<>> /\ g.transactions = <<>>
  /\ g.totalPool = 0 /\ g.totalCashouts = 0 /\ g.bonusPool = 0

C24_CreateGameValidated ==
  \A gid \in GameIds \ DOMAIN games : \A input \in CreateGameInputs :
    LET r == createGame(games, gid, input)
    IN IF r.err = "OK"
         THEN /\ input.endDate > input.startDate
              /\ \A i \in 1..Len(input.checkpoints) :
                   /\ input.checkpoints[i] >= input.startDate
                   /\ input.checkpoints[i] <= input.endDate
                   /\ i > 1 => input.checkpoints[i - 1] <= input.checkpoints[i]
              /\ input.aiVerification <=> input.verificationMethod = "AI"
              /\ gid \in DOMAIN r.store
              /\ FreshlyCreated(r.store[gid])
              /\ \A id \in DOMAIN games : r.store[id] = games[id]
         ELSE r.store = games

\* ------------------------------------------------------------------------
\* C25  Every value handed to a caller by a read accessor or returned by a
\*      command (createGame, joinGame, startGame, endGame, getGame,
\*      getPlayerCheckIns, getGameTransactions) is a copy: changing the
\*      returned value never changes what a later read of the store returns.
\*      createGame returns the very object it has just put into the store.
\* ------------------------------------------------------------------------
\* A value in a caller's hands: alias names the stored game the value is the
\* same object as, NoAlias when the value is a cloneDeep
NoAlias == "NONE"
Returned(alias, value) == [alias |-> alias, value |-> value]

\* getGameCopy, and so getGame and the value joinGame, startGame and endGame
\* return, is a cloneDeep of the stored game
getGame(store, gameId) == Returned(NoAlias, store[gameId])

getPlayerCheckIns(store, gameId, playerId) ==
  Returned(NoAlias, getPlayerCheckInsCopy(store[gameId], playerId))

getGameTransactions(store, gameId) ==
  Returned(NoAlias, store[gameId].transactions)

\* createGame: gameStorage.createGameMut(game); return ok(game)
createGameReturns(gameId, input) == Returned(gameId, NewGame(input))

\* The caller assigns to the value it holds: an aliased stored game changes
\* with it
CallerWrites(store, returned, value) ==
  IF returned.alias \in DOMAIN store
    THEN [store EXCEPT ![returned.alias] = value]
    ELSE store

\* The store as the caller's write on what a command returned leaves it is
\* read as before the write
ReadsUnchanged(store, returned, value) ==
  \A id \in DOMAIN store :
    getGame(CallerWrites(store, returned, value), id).value
      = getGame(store, id).value

C25_CallersReceiveCopies ==
  /\ \A gid \in GameIds \ DOMAIN games : \A input \in Configs :
       LET r == createGame(games, gid, input)
           returned == createGameReturns(gid, input)
       IN r.err = "OK" =>
            ReadsUnchanged(r.store, returned,
                           [returned.value EXCEPT !.totalPool = @ + 1])
  /\ \A gid \in DOMAIN games :
       /\ ReadsUnchanged(games, getGame(games, gid),
                         [games[gid] EXCEPT !.totalPool = @ + 1])
       /\ ReadsUnchanged(games, getGameTransactions(games, gid), <<>>)
       /\ \A pid \in Callers(games[gid]) :
            ReadsUnchanged(games, getPlayerCheckIns(games, gid, pid), <<>>)
       /\ \A pid \in Callers(games[gid]), m \in Multipliers :
            LET store == [games EXCEPT ![gid] = joinGame(@, pid, m).g]
            IN ReadsUnchanged(store, getGame(store, gid),
                              [store[gid] EXCEPT !.players = <<>>])
       /\ \A gm \in GameMasterIds :
            /\ LET store == [games EXCEPT ![gid] = startGame(@, gm, now).g]
               IN ReadsUnchanged(store, getGame(store, gid),
                                 [store[gid] EXCEPT !.state = "ENDED"])
            /\ LET store == [games EXCEPT ![gid] = endGame(@, gm).g]
               IN ReadsUnchanged(store, getGame(store, gid),
                                 [store[gid] EXCEPT !.bonusPool = @ + 1])

\* ------------------------------------------------------------------------
\* C26  A game's transaction list is append-only: across any command or
\*      scheduler action the list before the action is a prefix of the list
\*      after it, so no recorded transaction's player, type or amount ever
\*      changes and none is removed.
\* ------------------------------------------------------------------------
IsPrefix(s, t) == Len(s) <= Len(t) /\ SubSeq(t, 1, Len(s)) = s

C26_TransactionsAppendOnly ==
  [][\A gid \in DOMAIN games :
       /\ gid \in DOMAIN games'
       /\ IsPrefix(games[gid].transactions, games'[gid].transactions)]_vars

\* A cash-out has been appended behind the stakes of a game
C26_Witness ==
  \E gid \in DOMAIN games :
    LET txs == games[gid].transactions
    IN /\ Len(txs) >= 3
       /\ txs[1].type = "INITIAL_STAKE" /\ txs[2].type = "INITIAL_STAKE"
       /\ txs[1].playerId # txs[2].playerId
       /\ txs[Len(txs)].type = "CASHOUT"

\* ------------------------------------------------------------------------
\* C27  A fold is irrevocable and freezes the player's count: once
\*      foldedAtCheckpoint is set it is never cleared or changed and the
\*      player's checkpointsCompleted never changes again, also when the
\*      cash-out happens while a check-in of that player is being verified
\*      (manually, by timeout approval, or by an outstanding AI call).
\*      An AI call that was outstanding at the cash-out approves the
\*      check-in when it returns and advances the folded player.
\* ------------------------------------------------------------------------
C27_FoldFreezesProgress ==
  [][\A gid \in DOMAIN games : \A i \in 1..Len(games[gid].players) :
       LET p == games[gid].players[i]
           q == games'[gid].players[i]
       IN p.foldedAtCheckpoint # Undefined =>
            /\ q.foldedAtCheckpoint = p.foldedAtCheckpoint
            /\ q.checkpointsCompleted = p.checkpointsCompleted
            /\ q.checkpointsCompleted = q.foldedAtCheckpoint]_vars

\* ------------------------------------------------------------------------
\* C28  The scheduler never forces a start: a scheduler pass changes a
\*      WAITING_FOR_PLAYERS game to IN_PROGRESS only when startGame's own
\*      preconditions hold; a game with fewer than minPlayers players, or
\*      one whose start window (startDate + 1 hour) has closed, is left as
\*      it is, still WAITING_FOR_PLAYERS, by every pass and every timer,
\*      and is never ended.
\* ------------------------------------------------------------------------
StartPreconditions(g, t) ==
  /\ g.state = "WAITING_FOR_PLAYERS"
  /\ t >= g.startDate /\ t <= g.startDate + OneHour
  /\ Len(g.players) >= g.minPlayers

C28_SchedulerNeverForcesStart ==
  [][ProcessGames \/ EndTimer =>
       \A gid \in DOMAIN games :
         games[gid].state = "WAITING_FOR_PLAYERS" =>
           IF StartPreconditions(games[gid], now)
             THEN games'[gid] \in
                    {games[gid],
                     [games[gid] EXCEPT !.state = "IN_PROGRESS"]}
             ELSE games'[gid] = games[gid]]_vars

\* A pass finds a waiting game past its start date that has too few
\* players or a closed start window, and leaves it waiting
C28_Witness ==
  \E gid \in DOMAIN games :
    /\ games[gid].state = "WAITING_FOR_PLAYERS"
    /\ now >= games[gid].startDate
    /\ Len(games[gid].players) >= games[gid].minPlayers
    /\ now > games[gid].startDate + OneHour
    /\ processGame(games[gid], now).g = games[gid]
    /\ endTimers[gid] = 0

\* ------------------------------------------------------------------------
\* C29  While the scheduler is running, every IN_PROGRESS game whose endDate
\*      has been reached is eventually ENDED: a scheduler pass at or after
\*      endDate calls endGame with the game's own game master id and that
\*      call succeeds, so the game is ENDED after the pass.
\* ------------------------------------------------------------------------
EndDue(gid) ==
  /\ gid \in DOMAIN games
  /\ games[gid].state = "IN_PROGRESS"
  /\ now >= games[gid].endDate

\* What a pass makes of a due game is what endGame, called with the game's
\* own game master id, makes of it: the call succeeds and the game is ENDED
DuePassEnds ==
  \A gid \in DOMAIN games :
    EndDue(gid) =>
      /\ endGame(games[gid], games[gid].gameMasterId).err = "OK"
      /\ processGame(games[gid], now).g
           = endGame(games[gid], games[gid].gameMasterId).g
      /\ processGame(games[gid], now).g.state = "ENDED"

C29_DueGamesAreEnded ==
  /\ []DuePassEnds
  /\ \A gid \in GameIds :
       EndDue(gid) ~> (gid \in DOMAIN games /\ games[gid].state = "ENDED")

\* A game in progress has reached its end date with a player still in it,
\* and a pass ends it
C29_Witness ==
  \E gid \in DOMAIN games :
    /\ EndDue(gid)
    /\ \E i \in 1..Len(games[gid].players) :
         games[gid].players[i].foldedAtCheckpoint = Undefined
    /\ processGame(games[gid], now).g.state = "ENDED"

\* ------------------------------------------------------------------------
\* C30  When a scheduler pass processes an IN_PROGRESS game in which a
\*      checkpoint has expired (now >= expiry, now < endDate), every
\*      non-folded player's PENDING check-in for that checkpoint becomes
\*      APPROVED with verifiedBy = TIMEOUT_APPROVAL and that player's
\*      checkpointsCompleted increases by one for it; check-ins that are
\*      already APPROVED or REJECTED are not touched.
\*      As stated this fails for a player whom the same pass has cashed out
\*      for missing an earlier expired checkpoint: that player is folded by
\*      the time the later checkpoint is handled and the check-in stays
\*      PENDING.  The theorem excepts such check-ins.
\* ------------------------------------------------------------------------
\* c is a PENDING check-in for an expired checkpoint of a player who is
\* not folded when the pass begins
TimeoutDue(g, c, t) ==
  /\ c.status = "PENDING"
  /\ c.checkpointNumber \in 1..Len(g.checkpoints)
  /\ t >= g.checkpoints[c.checkpointNumber]
  /\ PlayerIndex(g, c.playerId) # 0
  /\ g.players[PlayerIndex(g, c.playerId)].foldedAtCheckpoint = Undefined

\* The pass cashes the player out for an expired checkpoint before k for
\* which the player has neither an APPROVED nor a PENDING check-in
MissedBefore(g, playerId, k, t) ==
  /\ g.forceCashoutOnMiss
  /\ \E j \in 1..(k - 1) :
       /\ t >= g.checkpoints[j]
       /\ \A n \in 1..Len(g.checkIns) :
            ~(/\ g.checkIns[n].playerId = playerId
              /\ g.checkIns[n].checkpointNumber = j
              /\ g.checkIns[n].status \in {"APPROVED", "PENDING"})

TimeoutApproved(c) ==
  [c EXCEPT !.status = "APPROVED", !.verifiedBy = "TIMEOUT_APPROVAL",
            !.notes = "AUTOMATED_APPROVAL"]

BeforeCheckpoint(game, t, k) ==
  processCheckpointExpiry(
    [game EXCEPT !.checkpoints = SubSeq(game.checkpoints, 1, k - 1)],
    game, t, 1).g

\* The player is in the game, not folded, and has neither an APPROVED nor a
\* PENDING check-in for checkpoint k
MissedCheckpoint(g, playerId, k) ==
  /\ PlayerIndex(g, playerId) # 0
  /\ g.players[PlayerIndex(g, playerId)].foldedAtCheckpoint = Undefined
  /\ \A n \in 1..Len(g.checkIns) :
       ~(/\ g.checkIns[n].playerId = playerId
         /\ g.checkIns[n].checkpointNumber = k
         /\ g.checkIns[n].status \in {"APPROVED", "PENDING"})

\* The pools and the fold marks of a game
PoolsAndFolds(g) ==
  <<g.totalPool, g.totalCashouts, g.bonusPool,
    [i \in 1..Len(g.players) |-> g.players[i].foldedAtCheckpoint]>>

C31_ForcedCashOutOnMiss ==
  \A gid \in DOMAIN games :
    LET game == games[gid] IN
    (game.state = "IN_PROGRESS" /\ now < game.endDate) =>
      /\ \A k \in 1..Len(game.checkpoints) :
           now >= game.checkpoints[k] =>
             LET b == BeforeCheckpoint(game, now, k)
                 a == processExpiredCheckpointForPlayers(game, b,
                                                         game.players, k)
             IN \A i \in 1..Len(b.players) :
                  LET id == b.players[i].id IN
                  IF MissedCheckpoint(b, id, k) /\ game.forceCashoutOnMiss
                    THEN /\ cashOut(b, id).err = "OK"
                         /\ a.players[i] = cashOut(b, id).g.players[i]
                         /\ a.players[i].foldedAtCheckpoint # Undefined
                         /\ Len(CashoutsOf(a, id))
                              = Len(CashoutsOf(b, id)) + 1
                    ELSE /\ a.players[i].foldedAtCheckpoint
                              = b.players[i].foldedAtCheckpoint
                         /\ CashoutsOf(a, id) = CashoutsOf(b, id)
      /\ ~game.forceCashoutOnMiss =>
           /\ PoolsAndFolds(processCheckpointExpiry(game, game, now, 1).g)
                = PoolsAndFolds(game)
           /\ processGame(game, now).g.transactions = game.transactions

\* A checkpoint has expired in a game that forces cash-outs, a player who
\* is still in has no check-in for it, and the pass folds that player
C31_Witness ==
  \E gid \in DOMAIN games :
    LET game == games[gid] IN
    /\ game.state = "IN_PROGRESS" /\ now < game.endDate
    /\ game.forceCashoutOnMiss
    /\ \E i \in 1..Len(game.players), k \in 1..Len(game.checkpoints) :
         /\ now >= game.checkpoints[k]
         /\ MissedCheckpoint(game, game.players[i].id, k)
         /\ processGame(game, now).g.players[i].foldedAtCheckpoint
              # Undefined
         /\ processGame(game, now).g.totalCashouts
              >= game.totalCashouts

\* A checkpoint has expired in a game that does not force cash-outs while a
\* player who is still in has no check-in for it, and the pass leaves the
\* player in
C31_WitnessUnset ==
  \E gid \in DOMAIN games :
    LET game == games[gid] IN
    /\ game.state = "IN_PROGRESS" /\ now < game.endDate
    /\ ~game.forceCashoutOnMiss
    /\ \E i \in 1..Len(game.players), k \in 1..Len(game.checkpoints) :
         /\ now >= game.checkpoints[k]
         /\ MissedCheckpoint(game, game.players[i].id, k)
         /\ processGame(game, now).g.players[i].foldedAtCheckpoint
              = Undefined

\* ------------------------------------------------------------------------
\* C32  An expired checkpoint is handled once: after the pass that first
\*      sees the last checkpoint expired has armed the timer that ends the
\*      game at endDate, later passes do not process that checkpoint again,
\*      so at most one end timer is ever pending for a game.
\*      The worker keeps no record of the checkpoints it has handled: every
\*      pass made while the game is IN_PROGRESS and before endDate handles
\*      every expired checkpoint again and arms one more timer.
\* ------------------------------------------------------------------------
C32_HandledOnce ==
  /\ [](\A gid \in GameIds : endTimers[gid] <= 1)
  /\ [][ProcessGames =>
          \A gid \in DOMAIN games :
            endTimers[gid] > 0 => endTimers'[gid] = endTimers[gid]]_vars

\* ------------------------------------------------------------------------
\* C33  At most one scheduler pass executes at any time: a new pass never
\*      starts while a previous pass is still running, and calling start()
\*      on a scheduler that is already running neither starts a second
\*      polling interval nor runs an extra pass.
\*      processGames is synchronous, so a pass is one step and no callback
\*      runs inside it; what is left to check is that passes have a single
\*      source: the worker never has more than one interval set, it has one
\*      exactly while isRunning, and start() on a running worker returns
\*      without touching the worker or running a pass.
\* ------------------------------------------------------------------------
C33_SinglePollingLoop ==
  /\ worker.intervals = (IF worker.isRunning THEN 1 ELSE 0)
  /\ worker.intervalId = (IF worker.isRunning THEN "SET" ELSE "NULL")
  /\ worker.isRunning => start(worker) = [w |-> worker, passes |-> 0]
  /\ ~worker.isRunning =>
       /\ start(worker).passes = 1
       /\ start(worker).w.intervals = 1

\* The worker has been started and is running over a game in progress;
\* start() is called again
C33_Witness ==
  /\ worker.isRunning
  /\ worker.intervals = 1
  /\ \E gid \in DOMAIN games : games[gid].state = "IN_PROGRESS"
  /\ start(worker).passes = 0
  /\ ENABLED StartWorker

\* ------------------------------------------------------------------------
\* C34  No command is suspended between its mutations: a check-in created
\*      by a submitCheckIn call that ends in failure (AI INVALID_SUBMISSION
\*      or another AI-step error) is never observable by another caller -
\*      not by getPlayerCheckIns or getGame, not by verifyCheckIn, not by a
\*      scheduler pass - at any point before it is rolled back.
\*      submitCheckIn stores the check-in and is then suspended at
\*      await llm.verifyCheckIn; until the provider answers, the check-in
\*      is in the store as PENDING for every other caller.
\* ------------------------------------------------------------------------
\* The call is suspended and the answer INVALID_SUBMISSION will make it
\* delete its check-in and fail
EndsInFailure(call) ==
  submitCheckInResumed(games[call.gameId], call.checkInId, call.playerId,
                       "INVALID_SUBMISSION").err # "OK"

C34_FailedSubmissionUnobserved ==
  \A call \in awaiting :
    EndsInFailure(call) =>
      LET g == games[call.gameId]
          seen == getGame(games, call.gameId).value.checkIns
          mine == getPlayerCheckIns(games, call.gameId, call.playerId).value
      IN /\ \A n \in 1..Len(seen) : seen[n].id # call.checkInId
         /\ \A n \in 1..Len(mine) : mine[n].id # call.checkInId
         /\ \A gm \in GameMasterIds :
              verifyCheckInGuard(g, call.checkInId, gm) = "CHECK_IN_NOT_FOUND"
         /\ processGame(g, now).g.checkIns = g.checkIns

\* ------------------------------------------------------------------------
\* C35  While submitCheckIn is waiting for the AI decision on a check-in,
\*      the game master's verifyCheckIn or the scheduler's timeout approval
\*      may act on the same check-in; in no such interleaving is the
\*      player's checkpointsCompleted incremented more than once for that
\*      check-in, and a check-in that has reached APPROVED or REJECTED is
\*      never put back to PENDING, flipped to the other terminal status, or
\*      deleted when the AI answer arrives.
\*      After the await verifyCheckInWithAI applies the answer without
\*      reading the check-in again.
\* ------------------------------------------------------------------------
C35_AnswerRespectsVerdict ==
  \A call \in awaiting, ai \in AIDecisions \ {"NO_API_KEY"} :
    LET g == games[call.gameId]
        h == submitCheckInResumed(g, call.checkInId, call.playerId, ai).g
        c == g.checkIns[CheckInIndex(g, call.checkInId)]
        i == PlayerIndex(g, call.playerId)
    IN c.status \in {"APPROVED", "REJECTED"} =>
         /\ CheckInIndex(h, call.checkInId) # 0
         /\ h.checkIns[CheckInIndex(h, call.checkInId)].status = c.status
         /\ h.players[i].checkpointsCompleted
              = g.players[i].checkpointsCompleted

\* ------------------------------------------------------------------------
\* C36  In every state reachable by commands run to completion, totalPool
\*      equals bonusPool plus the sum of the stakes (stackSize x
\*      multiplier) of the players who are not folded; in particular
\*      totalPool and bonusPool are never negative and bonusPool never
\*      exceeds totalPool.
\* ------------------------------------------------------------------------
\* The stakes of the players who are not folded
StakesInPlay(g) ==
  SumSeq([i \in 1..Len(g.players) |->
            IF g.players[i].foldedAtCheckpoint = Undefined
              THEN g.stackSize * g.players[i].multiplier
              ELSE 0])

CheckInsWith(g, playerId, k, statuses) ==
  { n \in 1..Len(g.checkIns) :
      /\ g.checkIns[n].playerId = playerId
      /\ k # 0 => g.checkIns[n].checkpointNumber = k
      /\ g.checkIns[n].status \in statuses }

C37_ProgressIsApprovals ==
  \A gid \in DOMAIN games :
    \A i \in 1..Len(games[gid].players) :
      LET g == games[gid]
          id == g.players[i].id
      IN /\ g.players[i].checkpointsCompleted
              = Cardinality(CheckInsWith(g, id, 0, {"APPROVED"}))
         /\ \A k \in 1..Len(g.checkpoints) :
              Cardinality(CheckInsWith(g, id, k, {"PENDING", "APPROVED"}))
                <= 1

\* A player has resubmitted after a rejection: an approved check-in stands
\* next to a rejected one for the same checkpoint and counts once
C37_Witness ==
  \E gid \in DOMAIN games :
    LET g == games[gid] IN
    /\ \E i \in 1..Len(g.players), k \in 1..Len(g.checkpoints) :
         /\ g.players[i].checkpointsCompleted = 1
         /\ CheckInsWith(g, g.players[i].id, k, {"APPROVED"}) # {}
         /\ CheckInsWith(g, g.players[i].id, k, {"REJECTED"}) # {}

\* ------------------------------------------------------------------------
\* C38  Submission and scheduler agree on when a checkpoint expires: there
\*      is no time t at which a scheduler pass treats a checkpoint as
\*      expired (and may cash a player out for missing it) while
\*      submitCheckIn at the same t still accepts a submission for that
\*      checkpoint.
\*      The pass skips a checkpoint while now < expiryDate, submitCheckIn
\*      refuses when now > expiryDate: at now = expiryDate the checkpoint
\*      is expired for the pass and open for submission.
\* ------------------------------------------------------------------------
\* A pass made now handles checkpoint k of the game as expired
PassTreatsAsExpired(g, k, t) ==
  /\ g.state = "IN_PROGRESS"
  /\ t < g.endDate
  /\ k \in 1..Len(g.checkpoints)
  /\ ~(t < g.checkpoints[k])

C38_ExpiryAgreed ==
  \A gid \in DOMAIN games :
    \A k \in 1..Len(games[gid].checkpoints) :
      PassTreatsAsExpired(games[gid], k, now) =>
        \A i \in 1..Len(games[gid].players) :
          submitCheckInGuard(games[gid], games[gid].players[i].id, k, now)
            # "OK"

\* ------------------------------------------------------------------------
\* C39  After stop() returns, the scheduler causes no further change to any
\*      game: no polling pass runs and no end timer armed by an earlier
\*      pass ends a game.
\*      stop() clears the polling interval only.  The one-shot timers of
\*      handleLastCheckpointExpiry are set without keeping their handles
\*      and fire at endDate whether the worker is running or not.
\* ------------------------------------------------------------------------
C39_StoppedWorkerIsSilent ==
  [][(~worker.isRunning /\ (ProcessGames \/ EndTimer)) =>
       games' = games]_vars

\* ------------------------------------------------------------------------
\* C40  When the scheduler ends a game, no non-folded player is cashed out
\*      as incomplete while holding a PENDING check-in for an expired
\*      checkpoint: every such check-in (including one for a checkpoint
\*      whose expiry equals endDate) is auto-approved by timeout before
\*      endGame force-cashes-out the incomplete players.
\*      A pass made at or after endDate calls endGame and nothing else: the
\*      expired checkpoints are handled only in the branch for now <
\*      endDate, so a check-in still PENDING when the game is due stays
\*      PENDING and its player is cashed out as incomplete.
\* ------------------------------------------------------------------------
C40_PendingApprovedBeforeEnd ==
  \A gid \in DOMAIN games :
    EndDue(gid) =>
      LET g == games[gid]
          h == processGame(g, now).g
      IN \A n \in 1..Len(g.checkIns) :
           TimeoutDue(g, g.checkIns[n], now) =>
             /\ h.checkIns[n] = TimeoutApproved(g.checkIns[n])
             /\ h.players[PlayerIndex(g, g.checkIns[n].playerId)]
                  .checkpointsCompleted
                  > g.players[PlayerIndex(g, g.checkIns[n].playerId)]
                      .checkpointsCompleted
====
